---- MODULE Spec2Model ----
(***************************************************************************)
(* Slimey: the per-frame simulation core of slime_platformer.main and the  *)
(* game_state machine around it.                                           *)
(*                                                                         *)
(* Time is counted in centiseconds (1/100 s): every timer constant of      *)
(* config.py is a whole number of them.  dt_scaled of a frame is an input  *)
(* of the frame (wall clock * game_speed_mult, at most 1/30 s * 2.0).      *)
(* Rectangle geometry is an input of the frame as well: which enemies the  *)
(* behaviour update flags remove, which of the survivors intersect the     *)
(* player and on which side, and how many coins intersect the player.      *)
(* Of the player rectangle the model keeps the vertical position; the      *)
(* horizontal one enters through these inputs and through the platforms    *)
(* whose span holds the player's centre.  player_rect.x as a frame finds it *)
(* is an input of the frame; what the frame makes of it is recorded in ev. *)
(* The millisecond clock (pygame.time.get_ticks) is read by the timer-     *)
(* driven spawners alone: that section of the frame is the action          *)
(* SpawnSection, and a Frame takes what the spawners append as an input.   *)
(* The particle lists are followed by the action ParticlePass, the particle *)
(* update of the frame; a Frame records the bursts it emits in ev.          *)
(* score_time is followed by the action ScoreTick, the clock of the main    *)
(* loop with the score_time write of the frame; a Frame takes               *)
(* int(score_time) as an input.  The coin rectangles are followed by the    *)
(* action CoinPass, the Coins section of the frame; a Frame takes the       *)
(* number of coins that intersect the player as an input.                   *)
(* The screen is 1920 x 1080, so scale_factor is 1.                        *)
(***************************************************************************)
EXTENDS Integers, Sequences, FiniteSets

(***************************************************************************)
(* config.py                                                               *)
(***************************************************************************)
INVINCIBLE_TIME == 100
KNOCKBACK_TIME == 22
KNOCKBACK_SPEED == 680
DASH_SPEED == 1100
DASH_DURATION == 25
DASH_COOLDOWN == 110
SCREEN_SHAKE_HIT == 25
SCREEN_SHAKE_KILL == 40
BASE_MAX_HEALTH == 3
LEVEL_UP_EVERY_COINS == 20
BOSS_WAVE_GROUND_COUNT == 3
BOSS_WAVE_FLYER_COUNT == 3
EXTRA_HEART_COST == 60
DOUBLE_JUMP_COST == 40
\* scroll speed in px/s
GAME_SPEED_BASE == 220
\* spawn delays in ms
OBSTACLE_SPAWN_DELAY_BASE == 1600
COIN_SPAWN_DELAY_BASE == 900
PLATFORM_SPAWN_DELAY_BASE == 1400
REFERENCE_WIDTH == 1920
REFERENCE_HEIGHT == 1080
\* pixels between the ground enemies and between the flyers of a boss wave
BOSS_WAVE_GROUND_SPACING == 80
BOSS_WAVE_FLYER_SPACING == 70
\* px/s^2 and px/s
GRAVITY == 2200
JUMP_STRENGTH == -900
PLAYER_MOVE_SPEED == 480
\* PLATFORM_TYPE_CONFIG: bounce_mult in tenths, fall_delay in centiseconds
BOUNCE_MULT == 14
FALL_DELAY == 40
HITS_TO_BREAK == 1
\* main: player_w = player_h = int(80 * scale_factor)
PLAYER_W == 80
PLAYER_H == 80
\* Clamp x: the left margin int(40 * scale_factor)
LEFT_MARGIN == 40
\* KILL: hs[:10] and sbl[:5]
HIGH_SCORES_KEPT == 10
LEVEL_SCORES_KEPT == 5
\* sizes of a coin and of an enemy for which no sprite is loaded
COIN_SIZE == 32
ENEMY_SIZE == 48

BOSS_LEVELS == {5, 10, 20, 30, 50, 75, 100}

\* speed in px/s
ENEMY_CONFIG ==
    [walker |-> [spawn_type |-> "platform", spawn_chance |-> 0, damage |-> 1, min_level |-> 1, speed |-> 140],
     flyer  |-> [spawn_type |-> "air",      spawn_chance |-> 8, damage |-> 1, min_level |-> 2, speed |-> 180],
     jumper |-> [spawn_type |-> "ground",   spawn_chance |-> 4, damage |-> 2, min_level |-> 3, speed |-> 160],
     brute  |-> [spawn_type |-> "ground",   spawn_chance |-> 0, damage |-> 3, min_level |-> 1, speed |-> 110],
     swift  |-> [spawn_type |-> "ground",   spawn_chance |-> 0, damage |-> 1, min_level |-> 1, speed |-> 220]]

\* config.ACHIEVEMENTS: the ids
ACHIEVEMENTS ==
    {"reach_level_5", "reach_level_10", "reach_level_20", "no_hit_to_5", "coins_100"}

\* config.LEVEL_ENEMY_CONFIG: the kinds enabled by default and by level
LEVEL_ENEMY_CONFIG ==
    [default  |-> [enabled_kinds |-> <<"walker", "flyer", "jumper">>],
     by_level |-> <<[enabled_kinds |-> <<"walker">>],
                    [enabled_kinds |-> <<"walker", "flyer">>],
                    [enabled_kinds |-> <<"walker", "flyer", "jumper">>]>>]

\* enemy_logic.get_enabled_enemy_kinds(level), as a set
get_enabled_enemy_kinds(level) ==
    LET per_level == LEVEL_ENEMY_CONFIG.by_level
        kinds == IF level \in DOMAIN per_level /\ per_level[level].enabled_kinds # <<>>
                 THEN per_level[level].enabled_kinds
                 ELSE LEVEL_ENEMY_CONFIG.default.enabled_kinds
    IN {kinds[i] : i \in {j \in DOMAIN kinds : kinds[j] \in DOMAIN ENEMY_CONFIG}}

\* SPAWN ENEMIES (ground/air): the kinds for which the draw
\* "random.random() < spawn_chance * ... * dt_scaled" can succeed, whatever
\* the level (spawn_chance in hundredths per second)
SpawnerKinds ==
    {k \in DOMAIN ENEMY_CONFIG : /\ ENEMY_CONFIG[k].spawn_type \in {"air", "ground"}
                                 /\ ENEMY_CONFIG[k].spawn_chance > 0}

(***************************************************************************)
(* Bounds of the model                                                     *)
(***************************************************************************)
\* enemies alive at the end of a frame
MaxEnemies == 2
\* coins of the save file plus coins collected in the run
MaxTotalCoins == 120
\* levels the level select screen and the editor offer (the game: 1 .. 100)
MaxSelectLevel == 6
\* platforms alive at the end of a frame
MaxPlatforms == 2

\* dt_scaled values of a frame, in centiseconds (real frames: 0 < dt_scaled <= 6.67)
DtSet == {3, 6}
\* settings["enemy_damage_mult"] in tenths (slider range 0.5 .. 3.0)
DamageMults == {5, 10}
\* kinds the per-frame spawner creates (walkers come with a platform only),
\* and kinds a custom level may place
SpawnKinds == {"flyer"}
CustomKinds == {"jumper"}
\* numbers of coins that may intersect the player in one frame
PickSet == {0, 10, 20, 40}

VARIABLES
    game_state,     \* main: game_state
    wstate,         \* main: wstate, the RunState dictionary
    max_health,     \* main: max_health
    save_data,      \* main: save_data (upgrades, total_coins)
    settings,       \* main: settings (enemy_damage_mult, in tenths)
    player_rect,    \* main: player_rect (y: its top edge)
    ev,             \* history: what the last step did (bursts, hits, ...)
    hist,           \* history: per-run counters (deaths, boss waves, time since hit)
    gameplay_focus, \* main: gameplay_focus, the focused row of the gameplay settings
    editor          \* main: editor_data, editor_undo_stack, editor_redo_stack

vars == <<game_state, wstate, max_health, save_data, settings, player_rect, ev, hist, gameplay_focus, editor>>

(***************************************************************************)
(* Helpers                                                                 *)
(***************************************************************************)
sign(x) == IF x < 0 THEN -1 ELSE IF x > 0 THEN 1 ELSE 0

RECURSIVE SumSeq(_)
SumSeq(s) == IF s = <<>> THEN 0 ELSE Head(s) + SumSeq(Tail(s))

RECURSIVE Repeat(_, _)
Repeat(x, n) == IF n <= 0 THEN <<>> ELSE <<x>> \o Repeat(x, n - 1)

\* the subsequence of s at the indices of idx, in order
SubSeqAt(s, idx) ==
    LET F[i \in 0..Len(s)] ==
            IF i = 0 THEN <<>>
            ELSE IF i \in idx THEN Append(F[i - 1], s[i]) ELSE F[i - 1]
    IN F[Len(s)]

\* world.reset_state
reset_state(mh) ==
    [ player_vel_y        |-> 0,
      on_ground           |-> FALSE,
      score_time          |-> 0,
      dust_particles      |-> <<>>,
      spark_particles     |-> <<>>,
      trees               |-> <<>>,
      coins               |-> <<>>,
      platforms           |-> <<>>,
      last_tree_spawn     |-> 0,
      last_coin_spawn     |-> 0,
      last_platform_spawn |-> 0,
      enemies             |-> <<>>,
      jump_count          |-> 0,
      coins_collected_run |-> 0,
      level               |-> 1,
      health              |-> mh,
      max_health          |-> mh,
      invincible_timer    |-> 0,
      knockback_timer     |-> 0,
      knockback_dx        |-> 0,
      dash_timer          |-> 0,
      dash_cooldown       |-> 0,
      dash_dir            |-> 1,
      shake_timer         |-> 0,
      boss_wave_spawned   |-> FALSE,
      took_damage         |-> FALSE ]

\* get_world_for_level(level, WORLD_PACKS)["enemy_damage_mult"], in hundredths
world_enemy_damage_mult(level) ==
    IF level \in {1, 2} THEN 100
    ELSE IF level \in {3, 4} THEN 100
    ELSE IF level \in {5, 6} THEN 105
    ELSE IF level >= 7 /\ level <= 12 THEN 110
    ELSE 120

\* get_world_for_level(level, WORLD_PACKS)["enemy_spawn_mult"], in hundredths
world_enemy_spawn_mult(level) ==
    IF level \in {1, 2} THEN 100
    ELSE IF level \in {3, 4} THEN 100
    ELSE IF level \in {5, 6} THEN 110
    ELSE IF level >= 7 /\ level <= 12 THEN 120
    ELSE 130

\* pygame.Rect(x, y, w, h): top-left corner and size
Rect(x, y, w, h) == [x |-> x, y |-> y, w |-> w, h |-> h]

\* "r = Rect(0, 0, w, h); r.center = (cx, cy)"
CenteredRect(cx, cy, w, h) == Rect(cx - w \div 2, cy - h \div 2, w, h)

\* rect.centerx, rect.centery
centerx(r) == r.x + r.w \div 2
centery(r) == r.y + r.h \div 2

\* a level file that does not exist, one that json.load rejects (an empty
\* file is one), and one that holds a JSON object without any of the lists
NoFile == [missing |-> TRUE]
BadFile == [unreadable |-> TRUE]
EmptyObject == [other |-> 0]

\* editor_load_level: the content of levels/custom/level_XX.json with its
\* three lists, each empty when the file does not give it
editor_load_level(file) ==
    IF "missing" \in DOMAIN file \/ "unreadable" \in DOMAIN file
    THEN [platforms |-> <<>>, coins |-> <<>>, enemies |-> <<>>]
    ELSE [platforms |-> IF "platforms" \in DOMAIN file THEN file.platforms ELSE <<>>,
          coins     |-> IF "coins" \in DOMAIN file THEN file.coins ELSE <<>>,
          enemies   |-> IF "enemies" \in DOMAIN file THEN file.enemies ELSE <<>>]

\* main, construction: the editor with the level it loads (no file yet)
\* and its empty undo and redo stacks
NewEditor ==
    [data |-> editor_load_level(NoFile), undo_stack |-> <<>>, redo_stack |-> <<>>]

\* apply_custom_level_to_state, Platforms: one entry of the file (whole
\* numbers, as the editor writes them; depth is a cosmetic random draw)
CustomPlatform(p) ==
    [ rect |-> Rect(p.x, p.y, p.w, p.h),
      type |-> IF "type" \in DOMAIN p THEN p.type ELSE "normal",
      vx |-> 0, vy |-> 0, fall_started |-> FALSE, fall_timer |-> 0,
      fragile_hits |-> 0 ]

\* apply_custom_level_to_state, Coins
CustomCoin(c) == CenteredRect(c.x, c.y, COIN_SIZE, COIN_SIZE)

\* an enemy placed with its top-left corner at the given point
CustomEnemy_topleft(e) ==
    LET r == Rect(e.x, e.y, ENEMY_SIZE, ENEMY_SIZE)
    IN [ kind |-> IF "kind" \in DOMAIN e THEN e.kind ELSE "walker",
         rect |-> r, vx |-> 0, vy |-> 0, t |-> 0, state |-> "idle",
         base_y |-> centery(r) ]

\* apply_custom_level_to_state, Enemies
CustomEnemy(e) ==
    LET r == CenteredRect(e.x, e.y, ENEMY_SIZE, ENEMY_SIZE)
    IN [ kind |-> IF "kind" \in DOMAIN e THEN e.kind ELSE "walker",
         rect |-> r, vx |-> 0, vy |-> 0, t |-> 0, state |-> "idle",
         base_y |-> centery(r) ]

\* an apply_custom_level_to_state that also puts the run back to level 1
apply_custom_level_to_state_level1(w, data) ==
    [w EXCEPT
       !.level     = 1,
       !.platforms = [i \in 1..Len(data.platforms) |-> CustomPlatform(data.platforms[i])],
       !.coins     = [i \in 1..Len(data.coins) |-> CustomCoin(data.coins[i])],
       !.enemies   = [i \in 1..Len(data.enemies) |-> CustomEnemy(data.enemies[i])]]

\* apply_custom_level_to_state: data is what editor_load_level returns
apply_custom_level_to_state(w, data) ==
    [w EXCEPT
       !.platforms = [i \in 1..Len(data.platforms) |-> CustomPlatform(data.platforms[i])],
       !.coins     = [i \in 1..Len(data.coins) |-> CustomCoin(data.coins[i])],
       !.enemies   = [i \in 1..Len(data.enemies) |-> CustomEnemy(data.enemies[i])]]

\* world.spawn_air_enemy at (x, y); speed_mult in hundredths, velocities in
\* hundredths of px/s
spawn_air_enemy(kind, x, y, speed_mult) ==
    LET r == Rect(x, y, ENEMY_SIZE, ENEMY_SIZE)
    IN [ kind |-> kind, rect |-> r,
         vx |-> -(ENEMY_CONFIG[kind].speed * speed_mult), vy |-> 0, t |-> 0,
         state |-> "fly", base_y |-> centery(r) ]

\* world.spawn_ground_enemy at x
spawn_ground_enemy(kind, x) ==
    LET r == Rect(x, REFERENCE_HEIGHT - ENEMY_SIZE, ENEMY_SIZE, ENEMY_SIZE)
    IN [ kind |-> kind, rect |-> r,
         vx |-> -(ENEMY_CONFIG[kind].speed * 100), vy |-> 0, t |-> 0,
         state |-> "run", base_y |-> centery(r), jump_cooldown |-> 0 ]

\* history of a step that is no frame
NoEvents ==
    [ frame |-> FALSE, dt |-> 0, dash_down |-> FALSE, dash_dx |-> 0,
      boss_wave |-> FALSE, picked |-> 0, n_touch |-> 0, touch_dmg |-> 0,
      bursts |-> 0, jump_down |-> FALSE, jump |-> "none", move_dx |-> 0,
      off |-> {}, broken |-> {}, kept |-> <<>>, stood |-> {}, run_score |-> 0,
      start |-> FALSE, start_level |-> 0, custom |-> NoFile,
      pass |-> FALSE, leaping |-> {}, alive |-> <<>>, land_dust |-> 0,
      spawned |-> {}, cd_draw |-> 0,
      adjust_key |-> "none", adjust_raw |-> 0, lookup |-> {},
      editor_op |-> "none", pushed |-> FALSE, before |-> <<>>,
      idle |-> FALSE, coin_pass |-> FALSE, particles |-> FALSE, expired |-> 0, ticked |-> FALSE, dt_scaled |-> 0,
      spawning |-> FALSE, now_ms |-> 0, since |-> 0,
      spawn_n |-> [tree |-> 0, coin |-> 0, platform |-> 0], knock_move |-> 0, x_clamped |-> 0, x |-> 0 ]

\* history of a run that has just started (since_hit saturates at
\* INVINCIBLE_TIME, which also stands for "no hit so far"), with the clock
\* of a program that has just started: now_ms is the latest reading of
\* pygame.time.get_ticks, spawn_ms the reading at the latest spawn of each
\* timer-driven class (-1: none so far)
NewRunHist ==
    [ deaths |-> 0, waves |-> 0, since_hit |-> INVINCIBLE_TIME, air_jumps |-> 0,
      hit_side |-> "none", now_ms |-> 0, adjusts |-> 0,
      spawn_ms |-> [tree |-> -1, coin |-> -1, platform |-> -1] ]

(***************************************************************************)
(* The playing block of main, section by section.  Every operator takes    *)
(* the RunState record and returns it as the section leaves it.            *)
(***************************************************************************)

\* Python int(): truncation toward zero of a / b  (b > 0)
TruncDiv(a, b) == IF a >= 0 THEN a \div b ELSE -((-a) \div b)

\* Player Movement: move_x as -1 / 0 / +1 (the speed factor keeps the sign)
MoveX(move_left_down, move_right_down) ==
    (IF move_right_down THEN 1 ELSE 0) - (IF move_left_down THEN 1 ELSE 0)

\* a dash that does not wait for the cooldown
DashStarts_no_cooldown(w, dash_down) ==
    ~(w.dash_timer > 0) /\ dash_down

\* DASH: does this frame start a dash?
DashStarts(w, dash_down) ==
    ~(w.dash_timer > 0) /\ dash_down /\ w.dash_cooldown <= 0

\* DASH: the displacement "player_rect.x += int(dash_dir * DASH_SPEED * dt_scaled)"
DashDx(w, dt) ==
    IF w.dash_timer > 0 THEN TruncDiv(w.dash_dir * DASH_SPEED * dt, 100) ELSE 0

\* a dash that keeps the direction of the previous dash when no horizontal
\* intent is held
DashStep_keep_dir(w, dt, move_x, dash_down) ==
    LET dash_active == w.dash_timer > 0
        starts == DashStarts(w, dash_down)
        timer1 == IF dash_active THEN w.dash_timer - dt
                  ELSE IF starts THEN DASH_DURATION ELSE w.dash_timer
        cd1 == IF starts THEN DASH_COOLDOWN ELSE w.dash_cooldown
        dir1 == IF starts
                THEN (IF move_x < 0 THEN -1 ELSE IF move_x > 0 THEN 1 ELSE w.dash_dir)
                ELSE w.dash_dir
        cd2 == cd1 - dt
    IN [w EXCEPT !.dash_timer = timer1,
                 !.dash_cooldown = IF cd2 < 0 THEN 0 ELSE cd2,
                 !.dash_dir = dir1]

\* DASH: timers and direction
DashStep(w, dt, move_x, dash_down) ==
    LET dash_active == w.dash_timer > 0
        starts == DashStarts(w, dash_down)
        timer1 == IF dash_active THEN w.dash_timer - dt
                  ELSE IF starts THEN DASH_DURATION ELSE w.dash_timer
        cd1 == IF starts THEN DASH_COOLDOWN ELSE w.dash_cooldown
        dir1 == IF starts
                THEN (IF move_x < 0 THEN -1 ELSE IF move_x > 0 THEN 1 ELSE 1)
                ELSE w.dash_dir
        cd2 == cd1 - dt
    IN [w EXCEPT !.dash_timer = timer1,
                 !.dash_cooldown = IF cd2 < 0 THEN 0 ELSE cd2,
                 !.dash_dir = dir1]

\* SPAWNING (platform enemies) and SPAWN ENEMIES (ground/air): the enemies
\* the random draws of this frame append, in the order of the code
SpawnStep(w, spawned) == [w EXCEPT !.enemies = @ \o spawned]

\* BOSS WAVES: is the squadron spawned in this frame?
BossWaveDue(w) == w.level \in BOSS_LEVELS /\ ~w.boss_wave_spawned

\* BOSS WAVES: the squadron of a boss level, the jumpers spaced along the
\* ground and the flyers stacked from 0.25 * screen_h downwards (the random
\* x of every spawn is taken at its lower end)
BossWave(level) ==
    [i \in 1..BOSS_WAVE_GROUND_COUNT |->
        spawn_ground_enemy("jumper",
            REFERENCE_WIDTH + 30 + (i - 1) * BOSS_WAVE_GROUND_SPACING)]
    \o
    [i \in 1..BOSS_WAVE_FLYER_COUNT |->
        [spawn_air_enemy("flyer", REFERENCE_WIDTH + 20, REFERENCE_HEIGHT \div 5,
                         (world_enemy_spawn_mult(level) * 150) \div 100)
           EXCEPT !.rect.y = REFERENCE_HEIGHT \div 4
                             + (i - 1) * BOSS_WAVE_FLYER_SPACING]]

\* a boss wave that does not set its guard
BossWaveStep_unflagged(w) ==
    IF BossWaveDue(w)
    THEN [w EXCEPT !.enemies = @ \o BossWave(w.level)]
    ELSE w

\* BOSS WAVES on special levels
BossWaveStep(w) ==
    IF BossWaveDue(w)
    THEN [w EXCEPT !.enemies = @ \o BossWave(w.level),
                   !.boss_wave_spawned = TRUE]
    ELSE w

\* Coins: every coin that intersects the player adds one
CoinStep(w, picked) == [w EXCEPT !.coins_collected_run = @ + picked]

\* world.update_enemies: keeps, in order, the enemies not flagged remove
update_enemies(enemies, flagged) ==
    SubSeqAt(enemies, (1..Len(enemies)) \ flagged)

(***************************************************************************)
(* world._update_enemy_behavior and the pass of world.update_enemies over   *)
(* concrete enemies.  dt in centiseconds, positions in pixels, velocities   *)
(* in hundredths of px/s, game_speed in px/s.                               *)
(***************************************************************************)

\* jump_interval in centiseconds, jump_force in px/s, frequency in tenths
\* of rad/s, amplitude in pixels
ENEMY_BEHAVIOR_CONFIG ==
    [walker |-> [type |-> "patrol"],
     flyer  |-> [type |-> "sine_fly", amplitude |-> 40, frequency |-> 14],
     jumper |-> [type |-> "jump", jump_interval |-> 200, jump_force |-> -750],
     brute  |-> [type |-> "patrol"],
     swift  |-> [type |-> "patrol"]]

\* bcfg.get("type", "plain")
BehaviorType(kind) ==
    IF kind \in DOMAIN ENEMY_BEHAVIOR_CONFIG
    THEN ENEMY_BEHAVIOR_CONFIG[kind].type ELSE "plain"

\* the dict e with e[k] = v
Put(e, k, v) == [x \in DOMAIN e \cup {k} |-> IF x = k THEN v ELSE e[x]]

\* rect.right, rect.bottom
right(r) == r.x + r.w
bottom(r) == r.y + r.h

\* 1000 * math.sin of an angle a >= 0 given in milliradians, by
\* Bhaskara's formula (within 2 of the true value)
SinMilli(a) ==
    LET m == a % 6283
        h == IF m > 3141 THEN m - 3141 ELSE m
        q == h * (3141 - h)
        v == (16 * q) \div ((5 * 3141 * 3141 - 4 * q) \div 1000)
    IN IF m > 3141 THEN -v ELSE v

\* a scroll that moves every enemy by at least one pixel
ScrollDx_atleast1(px_per_s, dt) ==
    IF TruncDiv(px_per_s * dt, 100) = 0 THEN 1 ELSE TruncDiv(px_per_s * dt, 100)

\* int(px_per_s * dt): whole pixels covered in dt
ScrollDx(px_per_s, dt) == TruncDiv(px_per_s * dt, 100)

\* a jumper that leaps one update early
JumpDue_early(cd, dt) == cd - dt <= dt

\* jump: "cd -= dt; if cd <= 0.0"
JumpDue(cd, dt) == cd - dt <= 0

\* patrol: the walker's own speed when it stands, then the scroll
PatrolStep(e, dt, game_speed) ==
    LET vx == IF e.vx = 0 THEN -(ENEMY_CONFIG[e.kind].speed * 100) ELSE e.vx
        x1 == e.rect.x + TruncDiv(vx * dt, 10000) - ScrollDx(game_speed, dt)
    IN [e EXCEPT !.rect.x = x1, !.remove = (x1 + e.rect.w < -100)]

\* sine_fly: leftwards, the height a sine of the enemy's age around base_y
SineFlyStep(e, dt, game_speed) ==
    LET bc == ENEMY_BEHAVIOR_CONFIG[e.kind]
        x1 == e.rect.x - ScrollDx(ENEMY_CONFIG[e.kind].speed + game_speed, dt)
        cy == TruncDiv(e.base_y * 1000 + SinMilli(e.t * bc.frequency) * bc.amplitude,
                       1000)
    IN [e EXCEPT !.rect.x = x1, !.rect.y = cy - e.rect.h \div 2,
                 !.remove = (x1 + e.rect.w < -100)]

\* jump: leftwards, a leap whenever the cooldown runs out, gravity, and
\* the ground at the lower screen edge; cd_draw is the draw of
\* random.uniform(0, jump_interval) for an enemy without cooldown
JumpBehaviorStep(e, dt, game_speed, cd_draw) ==
    LET bc  == ENEMY_BEHAVIOR_CONFIG[e.kind]
        x1  == e.rect.x - TruncDiv((ENEMY_CONFIG[e.kind].speed * 10 + game_speed * 7) * dt,
                                   1000)
        cd  == IF "jump_cooldown" \in DOMAIN e THEN e.jump_cooldown ELSE cd_draw
        due == JumpDue(cd, dt)
        vy0 == IF due THEN bc.jump_force * 100 ELSE e.vy
        vy1 == vy0 + ((GRAVITY * 9) \div 10) * dt
        y1  == e.rect.y + TruncDiv(vy1 * dt, 10000)
        lands == y1 + e.rect.h >= REFERENCE_HEIGHT
    IN [Put(e, "jump_cooldown", IF due THEN bc.jump_interval ELSE cd - dt)
          EXCEPT !.rect.x = x1,
                 !.rect.y = IF lands THEN REFERENCE_HEIGHT - e.rect.h ELSE y1,
                 !.vy = IF lands THEN 0 ELSE vy1,
                 !.remove = (x1 + e.rect.w < -120)]

\* default: move by vx/vy and scroll with the game speed
PlainStep(e, dt, game_speed) ==
    LET x1 == e.rect.x + TruncDiv(e.vx * dt, 10000) - ScrollDx(game_speed, dt)
    IN [e EXCEPT !.rect.x = x1,
                 !.rect.y = @ + TruncDiv(e.vy * dt, 10000),
                 !.remove = (x1 + e.rect.w < -120)]

\* a behaviour update that finds the remove flag as the frame before left it
update_enemy_behavior_stale(enemy, dt, game_speed, cd_draw) ==
    LET e0 == [Put(enemy, "remove", IF "remove" \in DOMAIN enemy THEN enemy.remove
                                    ELSE FALSE) EXCEPT !.t = @ + dt]
        ty == BehaviorType(e0.kind)
        e1 == IF ty = "patrol" THEN [PatrolStep(e0, dt, game_speed) EXCEPT !.remove = @ \/ e0.remove]
              ELSE IF ty = "sine_fly" THEN [SineFlyStep(e0, dt, game_speed) EXCEPT !.remove = @ \/ e0.remove]
              ELSE IF ty = "jump" THEN [JumpBehaviorStep(e0, dt, game_speed, cd_draw) EXCEPT !.remove = @ \/ e0.remove]
              ELSE [PlainStep(e0, dt, game_speed) EXCEPT !.remove = @ \/ e0.remove]
    IN [e1 EXCEPT !.remove = \/ @
                            \/ e1.rect.x > REFERENCE_WIDTH + 200
                            \/ e1.rect.y > REFERENCE_HEIGHT + 200
                            \/ bottom(e1.rect) < -200]

\* _update_enemy_behavior on an enemy whose remove flag update_enemies has
\* just cleared
update_enemy_behavior(enemy, dt, game_speed, cd_draw) ==
    LET e0 == [Put(enemy, "remove", FALSE) EXCEPT !.t = @ + dt]
        ty == BehaviorType(e0.kind)
        e1 == IF ty = "patrol" THEN PatrolStep(e0, dt, game_speed)
              ELSE IF ty = "sine_fly" THEN SineFlyStep(e0, dt, game_speed)
              ELSE IF ty = "jump" THEN JumpBehaviorStep(e0, dt, game_speed, cd_draw)
              ELSE PlainStep(e0, dt, game_speed)
    IN [e1 EXCEPT !.remove = \/ @
                            \/ e1.rect.x > REFERENCE_WIDTH + 200
                            \/ e1.rect.y > REFERENCE_HEIGHT + 200
                            \/ bottom(e1.rect) < -200]

\* the enemies after their behaviour update, before the cull
Behaved(enemies, dt, game_speed, cd_draw) ==
    [i \in 1..Len(enemies) |-> update_enemy_behavior(enemies[i], dt, game_speed, cd_draw)]

\* the entries the behaviour update flags remove
Flagged(enemies, dt, game_speed, cd_draw) ==
    {i \in 1..Len(enemies) : Behaved(enemies, dt, game_speed, cd_draw)[i].remove}

\* the jumpers that leap in this update
Leaping(enemies, dt, cd_draw) ==
    {i \in 1..Len(enemies) :
        /\ BehaviorType(enemies[i].kind) = "jump"
        /\ JumpDue(IF "jump_cooldown" \in DOMAIN enemies[i]
                   THEN enemies[i].jump_cooldown ELSE cd_draw, dt)}

\* world.update_enemies with its behaviour update: every enemy is updated
\* and the ones flagged remove are dropped
update_enemies_pass(enemies, dt, game_speed, cd_draw) ==
    update_enemies(Behaved(enemies, dt, game_speed, cd_draw),
                   Flagged(enemies, dt, game_speed, cd_draw))

\* the damage one enemy deals: int(damage * enemy_damage_mult * world mult)
EnemyDamage(kind, dmg_mult, world_mult) ==
    TruncDiv(ENEMY_CONFIG[kind].damage * dmg_mult * world_mult, 1000)

\* a hit that the invincibility of an earlier hit of the same frame stops
HitBy_shielded(w, kind, side, dmg_mult, world_mult) ==
    IF w.invincible_timer > 0 THEN w
    ELSE [w EXCEPT !.health = @ - EnemyDamage(kind, dmg_mult, world_mult),
                   !.took_damage = TRUE,
                   !.invincible_timer = INVINCIBLE_TIME,
                   !.knockback_timer = KNOCKBACK_TIME,
                   !.knockback_dx = -KNOCKBACK_SPEED * side,
                   !.shake_timer = SCREEN_SHAKE_HIT]

\* one iteration of "for e in enemies_list" whose rect intersects the player
HitBy(w, kind, side, dmg_mult, world_mult) ==
    [w EXCEPT !.health = @ - EnemyDamage(kind, dmg_mult, world_mult),
              !.took_damage = TRUE,
              !.invincible_timer = INVINCIBLE_TIME,
              !.knockback_timer = KNOCKBACK_TIME,
              !.knockback_dx = -KNOCKBACK_SPEED * side,
              !.shake_timer = SCREEN_SHAKE_HIT]

\* a damage step that does not look at invincible_timer
DamageStep_unshielded(w, dt, touch, dmg_mult, world_mult) ==
    LET F[i \in 0..Len(w.enemies)] ==
            IF i = 0
            THEN (IF w.invincible_timer > 0
                  THEN [w EXCEPT !.invincible_timer = @ - dt] ELSE w)
            ELSE IF i \in DOMAIN touch
                 THEN HitBy(F[i - 1], w.enemies[i].kind, touch[i], dmg_mult, world_mult)
                 ELSE F[i - 1]
    IN F[Len(w.enemies)]

\* DAMAGE from enemies.  touch maps the index of every enemy whose rect
\* intersects the player to sign(player centre - enemy centre).
DamageStep(w, dt, touch, dmg_mult, world_mult) ==
    IF w.invincible_timer > 0
    THEN [w EXCEPT !.invincible_timer = @ - dt]
    ELSE LET F[i \in 0..Len(w.enemies)] ==
                 IF i = 0 THEN w
                 ELSE IF i \in DOMAIN touch
                      THEN HitBy(F[i - 1], w.enemies[i].kind, touch[i], dmg_mult, world_mult)
                      ELSE F[i - 1]
         IN F[Len(w.enemies)]

\* Knockback: the displacement "player_rect.x += int(knock_dx * dt_scaled)"
KnockDx(w, dt) ==
    IF w.knockback_timer > 0 THEN TruncDiv(w.knockback_dx * dt, 100) ELSE 0

\* DAMAGE from enemies: sign(player centre - enemy centre) of the last enemy
\* that hits in this frame, or none when no enemy hits
LastHit(w, touch) ==
    IF w.invincible_timer > 0 \/ DOMAIN touch = {} THEN "none"
    ELSE LET last == CHOOSE i \in DOMAIN touch : \A j \in DOMAIN touch : j <= i
         IN IF touch[last] < 0 THEN "left" ELSE IF touch[last] > 0 THEN "right" ELSE "level"

\* clamp(x, mn, mx)
clamp(x, mn, mx) == IF x < mn THEN mn ELSE IF x > mx THEN mx ELSE x

\* main, construction: player_rect.x = int(screen_w * 0.15)
PLAYER_START_X == (REFERENCE_WIDTH * 15) \div 100

\* DASH, regular x-movement and Clamp x: player_rect.x after the clamp
ClampedX(x, dash_dx, move_dx) ==
    clamp(x + dash_dx + move_dx, LEFT_MARGIN, REFERENCE_WIDTH - PLAYER_W)

\* Knockback
KnockbackStep(w, dt) ==
    IF w.knockback_timer > 0 THEN [w EXCEPT !.knockback_timer = @ - dt] ELSE w

\* LEVEL UP: expected_level
ExpectedLevel(coins) == 1 + coins \div LEVEL_UP_EVERY_COINS

\* a level-up that fires one burst however many levels it advances
LevelUpBursts_single(w) ==
    IF ExpectedLevel(w.coins_collected_run) > w.level THEN 1 ELSE 0

\* LEVEL UP: number of level-up bursts fired ("for _ in range(diff)")
LevelUpBursts(w) ==
    LET expected_level == ExpectedLevel(w.coins_collected_run)
    IN IF expected_level > w.level THEN expected_level - w.level ELSE 0

\* a level-up check that assigns the expected level whenever it differs
LevelUpStep_assign(w) ==
    LET expected_level == ExpectedLevel(w.coins_collected_run)
    IN IF expected_level # w.level
       THEN [w EXCEPT !.level = expected_level,
                      !.shake_timer = SCREEN_SHAKE_KILL,
                      !.boss_wave_spawned = FALSE]
       ELSE w

\* LEVEL UP
LevelUpStep(w) ==
    LET expected_level == ExpectedLevel(w.coins_collected_run)
    IN IF expected_level > w.level
       THEN [w EXCEPT !.level = expected_level,
                      !.shake_timer = SCREEN_SHAKE_KILL,
                      !.boss_wave_spawned = FALSE]
       ELSE w

\* award_achievement(save_data, ach_id): the save data afterwards
award_achievement(sd, ach_id) ==
    IF ach_id \notin ACHIEVEMENTS \/ ach_id \in sd.achievements THEN sd
    ELSE [sd EXCEPT !.achievements = @ \cup {ach_id}]

\* award_achievement for each id of ids
AwardAll(sd, ids) ==
    [sd EXCEPT !.achievements =
         @ \cup UNION {award_achievement(sd, id).achievements : id \in ids}]

\* the ids for reaching level
ReachLevelIds(level) ==
    {id \in {"reach_level_5"} : level >= 5}
    \cup {id \in {"reach_level_10"} : level >= 10}
    \cup {id \in {"reach_level_20"} : level >= 20}

\* a level-up that awards the no-hit achievement to a run that has been hit
LevelUpAchievements_hit(w) ==
    LET expected_level == ExpectedLevel(w.coins_collected_run)
    IN IF expected_level > w.level
       THEN ReachLevelIds(expected_level)
            \cup {id \in {"no_hit_to_5"} : expected_level >= 5}
       ELSE {}

\* LEVEL UP, mid-run achievements: the ids passed to award_achievement by a
\* frame that reaches the level-up check in state w
LevelUpAchievements(w) ==
    LET expected_level == ExpectedLevel(w.coins_collected_run)
    IN IF expected_level > w.level
       THEN ReachLevelIds(expected_level)
            \cup {id \in {"no_hit_to_5"} : expected_level >= 5 /\ ~w.took_damage}
       ELSE {}

\* KILL, Achievements: the ids passed to award_achievement at death
KillAchievements(w) ==
    ReachLevelIds(w.level)
    \cup {id \in {"coins_100"} : w.coins_collected_run >= 100}
    \cup {id \in {"no_hit_to_5"} : w.level >= 5 /\ ~w.took_damage}

\* a death test that misses health = 0
Killed_below_zero(w) == w.health < 0

\* KILL (health <= 0)
Killed(w) == w.health <= 0

\* an insertion that puts the new record in front, whatever its score
InsertByScore_front(e, t) == <<e>> \o t

\* list.sort(key=score, reverse=True), one step of it: e goes behind the
\* records of t that it does not beat (the sort is stable, t is sorted)
InsertByScore(e, t) ==
    LET k == Cardinality({i \in 1..Len(t) : t[i].score >= e.score})
    IN SubSeq(t, 1, k) \o <<e>> \o SubSeq(t, k + 1, Len(t))

\* list.sort(key=lambda r: r["score"], reverse=True)
SortByScore(s) ==
    LET F[i \in 0..Len(s)] ==
            IF i = 0 THEN <<>> ELSE InsertByScore(s[i], F[i - 1])
    IN F[Len(s)]

\* the slice s[:n]
Top(s, n) == SubSeq(s, 1, IF Len(s) < n THEN Len(s) ELSE n)

\* save_data["scores_by_level"].setdefault(lvl_key, [])
ScoresOfLevel(sd, lvl) ==
    IF lvl \in DOMAIN sd.scores_by_level THEN sd.scores_by_level[lvl] ELSE <<>>

\* KILL: the run is folded into the save data.  run_score is
\* int(score_time), the whole seconds the run has lasted.
FoldRun(sd, w, run_score) ==
    LET run == [score |-> run_score, coins |-> w.coins_collected_run,
                level |-> w.level]
    IN [sd EXCEPT
          !.total_coins = @ + w.coins_collected_run,
          !.best_score = IF run_score > @ THEN run_score ELSE @,
          !.high_scores = Top(SortByScore(Append(@, run)), HIGH_SCORES_KEPT),
          !.scores_by_level =
              [l \in DOMAIN @ \cup {w.level} |->
                  IF l = w.level
                  THEN Top(SortByScore(Append(ScoresOfLevel(sd, l), run)),
                           LEVEL_SCORES_KEPT)
                  ELSE @[l]]]

\* a screen shake that runs on while the game is paused
ShakeStep_paused(w, gs, dt) ==
    IF gs \in {"playing", "paused"} /\ w.shake_timer > 0
    THEN [w EXCEPT !.shake_timer = @ - dt] ELSE w

\* APPLY SCREEN SHAKE: the timer runs only while game_state is playing
ShakeStep(w, gs, dt) ==
    IF gs = "playing" /\ w.shake_timer > 0
    THEN [w EXCEPT !.shake_timer = @ - dt] ELSE w

(***************************************************************************)
(* Player physics and platforms.  The operators up to the ground collision *)
(* work on the locals of the playing block: b = [y, player_vel_y,          *)
(* on_ground, jump_count, dust], velocities in px/s; dust counts the       *)
(* landing dust bursts the frame has emitted so far.                       *)
(***************************************************************************)

\* ground_y = int(screen_h * GROUND_Y_RATIO) - player_rect.height
GROUND_Y == (REFERENCE_HEIGHT * 8) \div 10 - PLAYER_H

\* main, construction: player_rect.y = int(screen_h * 0.5) - player_h // 2
PLAYER_START_Y == REFERENCE_HEIGHT \div 2 - PLAYER_H \div 2

\* Player Movement: int(move_x), move_x = +-PLAYER_MOVE_SPEED * dt_scaled
MoveDx(move_x, dt) == TruncDiv(move_x * PLAYER_MOVE_SPEED * dt, 100)

\* a Jump block whose second jump does not look at jump_count
JumpStep_any_count(b, double_jump, jump_down) ==
    IF ~jump_down THEN b
    ELSE IF b.on_ground
         THEN [b EXCEPT !.player_vel_y = JUMP_STRENGTH,
                        !.on_ground = FALSE,
                        !.jump_count = 1]
         ELSE IF double_jump
              THEN [b EXCEPT !.player_vel_y = TruncDiv(JUMP_STRENGTH * 9, 10),
                             !.jump_count = 2]
              ELSE b

\* Jump
JumpStep(b, double_jump, jump_down) ==
    IF ~jump_down THEN b
    ELSE IF b.on_ground
         THEN [b EXCEPT !.player_vel_y = JUMP_STRENGTH,
                        !.on_ground = FALSE,
                        !.jump_count = 1]
         ELSE IF double_jump /\ b.jump_count = 1
              THEN [b EXCEPT !.player_vel_y = TruncDiv(JUMP_STRENGTH * 9, 10),
                             !.jump_count = 2]
              ELSE b

\* what the Jump block did to the locals b: nothing, a jump that started on
\* the ground, or a jump that started in the air
JumpKind(b, b1) ==
    IF b1 = b THEN "none" ELSE IF b.on_ground THEN "ground" ELSE "air"

\* Gravity: player_vel_y += GRAVITY * dt_scaled; y += int(player_vel_y * dt_scaled)
GravityStep(b, dt) ==
    LET v == b.player_vel_y + (GRAVITY * dt) \div 100
    IN [b EXCEPT !.player_vel_y = v, !.y = @ + TruncDiv(v * dt, 100)]

\* Collision with ground; "if not on_ground" emits the landing dust
GroundStep(b) ==
    IF b.y >= GROUND_Y
    THEN [b EXCEPT !.y = GROUND_Y, !.on_ground = TRUE, !.player_vel_y = 0,
                   !.dust = IF b.on_ground THEN @ ELSE @ + 1]
    ELSE [b EXCEPT !.on_ground = FALSE]

\* a fall platform that drops as soon as it has been stepped on
PlatformFall_undelayed(p, dt) ==
    IF p.type = "fall" /\ p.fall_started
    THEN LET timer == p.fall_timer + dt
             vy == p.vy + (GRAVITY * 9 * dt) \div 100
         IN [p EXCEPT !.fall_timer = timer, !.vy = vy,
                      !.rect.y = @ + TruncDiv(vy * dt, 1000)]
    ELSE p

\* Platforms update, "Update falling": vy is kept in tenths of px/s
\* (GRAVITY * 0.9 * dt_scaled is 19.8 px/s per centisecond)
PlatformFall(p, dt) ==
    IF p.type = "fall" /\ p.fall_started
    THEN LET timer == p.fall_timer + dt
             vy == p.vy + (GRAVITY * 9 * dt) \div 100
         IN IF timer > FALL_DELAY
            THEN [p EXCEPT !.fall_timer = timer, !.vy = vy,
                           !.rect.y = @ + TruncDiv(vy * dt, 1000)]
            ELSE [p EXCEPT !.fall_timer = timer]
    ELSE p

\* a fragile rule that lets a platform live until it has more hits than
\* hits_to_break
Broken_late(plats) ==
    {i \in 1..Len(plats) :
        plats[i].type = "fragile" /\ plats[i].fragile_hits > HITS_TO_BREAK}

\* Platforms update, "Fragile logic": the platforms the pass drops as broken
Broken(plats) ==
    {i \in 1..Len(plats) :
        plats[i].type = "fragile" /\ plats[i].fragile_hits >= HITS_TO_BREAK}

\* Platforms update: the platforms the pass drops.  off holds the platforms
\* whose right edge has scrolled past -200.
Dropped(plats, dt, off) ==
    Broken(plats) \cup
    {i \in 1..Len(plats) :
        i \in off \/ PlatformFall(plats[i], dt).rect.y > REFERENCE_HEIGHT + 200}

\* Platforms update: the indices of the platforms new_plats receives
Kept(plats, dt, off) ==
    SubSeqAt([i \in 1..Len(plats) |-> i], (1..Len(plats)) \ Dropped(plats, dt, off))

\* Platforms update
PlatformsUpdate(plats, dt, off) ==
    SubSeqAt([i \in 1..Len(plats) |-> PlatformFall(plats[i], dt)],
             (1..Len(plats)) \ Dropped(plats, dt, off))

\* Stand on platform?  over holds the platforms whose span holds the
\* player's centre
Stands(b, p) ==
    /\ b.y + PLAYER_H <= p.rect.y + 10
    /\ b.y + PLAYER_H >= p.rect.y - 15
    /\ b.player_vel_y >= 0

\* Stand on platform: the player after landing on p; "if not on_ground"
\* emits the landing dust
StandOn(b, p) ==
    [b EXCEPT !.y = p.rect.y - PLAYER_H,
              !.on_ground = TRUE,
              !.dust = IF b.on_ground THEN @ ELSE @ + 1,
              !.player_vel_y = IF p.type = "bounce"
                               THEN TruncDiv(JUMP_STRENGTH * BOUNCE_MULT, 10)
                               ELSE 0]

\* a landing that counts twice on a fragile platform
StoodOn_twice(p) ==
    IF p.type = "fall" THEN [p EXCEPT !.fall_started = TRUE]
    ELSE IF p.type = "fragile" THEN [p EXCEPT !.fragile_hits = @ + 2]
    ELSE p

\* Stand on platform: the platform after the player has landed on it
StoodOn(p) ==
    IF p.type = "fall" THEN [p EXCEPT !.fall_started = TRUE]
    ELSE IF p.type = "fragile" THEN [p EXCEPT !.fragile_hits = @ + 1]
    ELSE p

\* Stand on platform: the loop over plats_list; stood collects the indices
\* of the platforms landed on
StandStep(b, plats, over) ==
    LET F[i \in 0..Len(plats)] ==
            IF i = 0 THEN [b |-> b, platforms |-> plats, stood |-> {}]
            ELSE IF i \in over /\ Stands(F[i - 1].b, plats[i])
                 THEN [b         |-> StandOn(F[i - 1].b, plats[i]),
                       platforms |-> [F[i - 1].platforms EXCEPT ![i] = StoodOn(@)],
                       stood     |-> F[i - 1].stood \cup {i}]
                 ELSE F[i - 1]
    IN F[Len(plats)]

\* the locals the playing block loads from RunState and player_rect
Locals(w, y) ==
    [y |-> y, player_vel_y |-> w.player_vel_y,
     on_ground |-> w.on_ground, jump_count |-> w.jump_count, dust |-> 0]

\* the vertical pass of the playing block: Jump, Gravity, ground collision,
\* platforms update, stand on platform
VerticalStep(w, y, double_jump, dt, jump_down, off, over) ==
    StandStep(GroundStep(GravityStep(JumpStep(Locals(w, y), double_jump, jump_down), dt)),
              PlatformsUpdate(w.platforms, dt, off), over)

(***************************************************************************)
(* One iteration of the main loop with game_state = playing                *)
(***************************************************************************)

\* the history of the run after a frame: executions of the KILL block,
\* boss waves since the level last changed, scaled time since the last frame
\* that applied a hit (a hit leaves invincible_timer at INVINCIBLE_TIME),
\* jumps started in the air since the player was last on the ground, the
\* side of the player on which the enemy of the latest hit was ("right":
\* the player's centre was right of the enemy's)
FrameHist(h, w_before, w_after, boss_wave, died, dt, jump, hit) ==
    [ air_jumps |-> IF w_after.on_ground THEN 0
                    ELSE h.air_jumps + (IF jump = "air" THEN 1 ELSE 0),
      deaths    |-> h.deaths + (IF died THEN 1 ELSE 0),
      waves     |-> IF w_after.level # w_before.level THEN 0
                    ELSE h.waves + (IF boss_wave THEN 1 ELSE 0),
      since_hit |-> IF w_after.invincible_timer = INVINCIBLE_TIME THEN 0
                    ELSE IF h.since_hit + dt > INVINCIBLE_TIME THEN INVINCIBLE_TIME
                    ELSE h.since_hit + dt,
      hit_side  |-> IF hit = "none" THEN h.hit_side ELSE hit,
      now_ms    |-> h.now_ms,
      spawn_ms  |-> h.spawn_ms ]

\* the sum of the damages of the enemies of list es at the indices of S
\* (the kinds that ENEMY_CONFIG knows)
TouchDamage(es, S, dmg_mult, world_mult) ==
    SumSeq([i \in 1..Len(es) |->
              IF i \in S /\ es[i].kind \in DOMAIN ENEMY_CONFIG
              THEN EnemyDamage(es[i].kind, dmg_mult, world_mult) ELSE 0])

\* DAMAGE from enemies: 'config.ENEMY_CONFIG[e["kind"]]' raises KeyError when
\* an enemy of a kind that is no key of ENEMY_CONFIG intersects the player
\* while invincible_timer is not positive
DamageFails(w, touch) ==
    /\ w.invincible_timer <= 0
    /\ \E i \in DOMAIN touch : w.enemies[i].kind \notin DOMAIN ENEMY_CONFIG

\* the enemy list the damage step finds: after the spawner, the boss wave
\* and the behaviour update
EnemiesAtDamage(w, spawned, flagged) ==
    update_enemies(BossWaveStep(SpawnStep(w, spawned)).enemies, flagged)

\* a frame without platforms
NoPlatforms == [off |-> {}, over |-> {}, spawned |-> <<>>]

\* GAMESTATE: PLAYING.  Inputs: dt_scaled, the held intents, the enemies the
\* spawners append, the number of coins that intersect the player, the
\* indices of the enemies the behaviour update flags remove, touch: the
\* survivors that intersect the player, each with sign(player - enemy), and
\* plat: the platforms that have scrolled off (off), those of the updated
\* list whose span holds the player's centre (over), and the platforms the
\* spawner appends (spawned); run_score: int(score_time) should the run end.
Frame(dt, move_left_down, move_right_down, dash_down, spawned, picked, flagged, touch, jump_down, plat, run_score, x) ==
    /\ game_state = "playing"
    /\ save_data.total_coins + wstate.coins_collected_run + picked <= MaxTotalCoins
    /\ plat.off \subseteq 1..Len(wstate.platforms)
    /\ \A i \in DOMAIN spawned : spawned[i].kind \in SpawnerKinds
    /\ \E world_mult \in {world_enemy_damage_mult(wstate.level)} :
       \E v \in {VerticalStep(wstate, player_rect.y, save_data.double_jump, dt,
                              jump_down, plat.off, plat.over)} :
       \E jump \in {JumpKind(Locals(wstate, player_rect.y),
                               JumpStep(Locals(wstate, player_rect.y),
                                        save_data.double_jump, jump_down))} :
       \E w0 \in {[wstate EXCEPT !.player_vel_y = v.b.player_vel_y,
                                 !.on_ground = v.b.on_ground,
                                 !.jump_count = v.b.jump_count,
                                 !.platforms = v.platforms \o plat.spawned]} :
       \E w1 \in {DashStep(w0, dt, MoveX(move_left_down, move_right_down), dash_down)} :
       \E w2 \in {SpawnStep(w1, spawned)} :
       \E w4 \in {CoinStep(BossWaveStep(w2), picked)} :
         /\ plat.over \subseteq 1..Len(v.platforms)
         /\ Len(w0.platforms) <= MaxPlatforms
         /\ flagged \subseteq 1..Len(w4.enemies)
         /\ Len(w4.enemies) - Cardinality(flagged) <= MaxEnemies
         /\ \E w5 \in {[w4 EXCEPT !.enemies = update_enemies(@, flagged)]} :
              /\ DOMAIN touch \subseteq 1..Len(w5.enemies)
              /\ ~DamageFails(w5, touch)
              /\ \E w7 \in {KnockbackStep(
                         DamageStep(w5, dt, touch, settings.enemy_damage_mult, world_mult),
                         dt)} :
                 \E w8 \in {LevelUpStep(w7)} :
                 \E gs \in {IF Killed(w8) THEN "game_over" ELSE "playing"} :
                 \E w9 \in {ShakeStep(w8, gs, dt)} :
                   /\ wstate' = w9
                   /\ player_rect' = [y |-> v.b.y]
                   /\ game_state' = gs
                   /\ \E sd1 \in {AwardAll(save_data, LevelUpAchievements(w7))} :
                        save_data' = IF Killed(w8)
                                     THEN FoldRun(AwardAll(sd1, KillAchievements(w8)),
                                                  w8, run_score)
                                     ELSE sd1
                   /\ ev' = [ frame     |-> TRUE,
                              dt        |-> dt,
                              dash_down |-> dash_down,
                              dash_dx   |-> DashDx(wstate, dt),
                              boss_wave |-> BossWaveDue(w2),
                              picked    |-> picked,
                              n_touch   |-> Cardinality(DOMAIN touch),
                              touch_dmg |-> TouchDamage(w5.enemies, DOMAIN touch,
                                               settings.enemy_damage_mult, world_mult),
                              bursts    |-> LevelUpBursts(w7),
                              jump_down |-> jump_down,
                              jump      |-> jump,
                              move_dx   |-> MoveDx(MoveX(move_left_down,
                                                         move_right_down), dt),
                              off       |-> plat.off,
                              broken    |-> Broken(wstate.platforms),
                              kept      |-> Kept(wstate.platforms, dt, plat.off),
                              stood     |-> v.stood,
                              run_score |-> run_score,
                              start     |-> FALSE,
                              start_level |-> 0,
                              custom    |-> NoFile,
                              pass      |-> FALSE,
                              leaping   |-> {},
                              alive     |-> <<>>,
                              land_dust |-> v.b.dust,
                              spawned   |-> {spawned[i].kind : i \in DOMAIN spawned},
                              cd_draw   |-> 0,
                              editor_op |-> "none",
                              pushed    |-> FALSE,
                              before    |-> <<>>,
                              adjust_key |-> "none",
                              adjust_raw |-> 0,
                              lookup    |-> {},
                              idle      |-> FALSE,
                              coin_pass |-> FALSE,
                              particles |-> FALSE,
                              expired   |-> 0,
                              ticked    |-> FALSE,
                              dt_scaled |-> 0,
                              spawning  |-> FALSE,
                              now_ms    |-> 0,
                              since     |-> 0,
                              spawn_n   |-> [tree |-> 0, coin |-> 0, platform |-> 0],
                              knock_move |-> KnockDx(
                                  DamageStep(w5, dt, touch, settings.enemy_damage_mult,
                                             world_mult), dt),
                              x_clamped |-> ClampedX(x, DashDx(wstate, dt),
                                  MoveDx(MoveX(move_left_down, move_right_down), dt)),
                              x         |-> ClampedX(x, DashDx(wstate, dt),
                                  MoveDx(MoveX(move_left_down, move_right_down), dt))
                                  + KnockDx(
                                      DamageStep(w5, dt, touch, settings.enemy_damage_mult,
                                                 world_mult), dt) ]
                   /\ hist' = FrameHist(hist, wstate, w9, BossWaveDue(w2), Killed(w8),
                                        dt, jump, LastHit(w5, touch))
                   /\ UNCHANGED <<max_health, settings, gameplay_focus, editor>>

\* GAMESTATE: PLAYING, a frame whose damage step raises KeyError: nothing in
\* main catches it and the program ends
FrameCrash(dt, spawned, flagged, touch) ==
    /\ game_state = "playing"
    /\ \A i \in DOMAIN spawned : spawned[i].kind \in SpawnerKinds
    /\ \E es \in {EnemiesAtDamage(wstate, spawned, flagged)} :
         /\ flagged \subseteq 1..(Len(es) + Cardinality(flagged))
         /\ Len(es) <= MaxEnemies
         /\ DOMAIN touch \subseteq 1..Len(es)
         /\ DamageFails([wstate EXCEPT !.enemies = es], touch)
    /\ game_state' = "crashed"
    /\ ev' = [NoEvents EXCEPT !.dt = dt, !.n_touch = Cardinality(DOMAIN touch)]
    /\ UNCHANGED <<wstate, max_health, save_data, settings, player_rect, hist, gameplay_focus, editor>>

(***************************************************************************)
(* Input events: the game_state machine                                    *)
(***************************************************************************)

\* a new run: RunState is replaced by reset_state, the level is set and the
\* custom level of that level (custom: its file) is applied
StartRun(lvl, custom) ==
    /\ wstate' = apply_custom_level_to_state(
                    [reset_state(max_health) EXCEPT !.level = lvl],
                    editor_load_level(custom))
    /\ game_state' = "playing"
    /\ ev' = [NoEvents EXCEPT !.start = TRUE, !.start_level = lvl,
                              !.custom = custom]
    /\ hist' = [NewRunHist EXCEPT !.now_ms = hist.now_ms, !.spawn_ms = hist.spawn_ms]
    /\ UNCHANGED <<max_health, save_data, settings, player_rect, gameplay_focus, editor>>

\* a game_state change that leaves everything else alone
Goto(from, to) ==
    /\ game_state \in from
    /\ game_state' = to
    /\ ev' = NoEvents
    /\ UNCHANGED <<wstate, max_health, save_data, settings, player_rect, hist, gameplay_focus, editor>>

\* main menu, Play with keyboard or controller: reset, level 1, custom level 1
MenuPlay(custom) == game_state = "menu" /\ StartRun(1, custom)

\* main menu, Play clicked with the mouse: wstate.update(reset_state(...)) only
MenuPlayMouse == game_state = "menu" /\ StartRun(1, NoFile)

\* level select (keyboard, mouse, controller): reset, chosen level, custom level
LevelSelectStart(chosen_level, custom) ==
    game_state = "level_select" /\ StartRun(chosen_level, custom)

\* level editor, key P: quick-test the current custom level
EditorPlaytest(editor_level, custom) ==
    game_state = "level_editor" /\ StartRun(editor_level, custom)

\* a Retry that resumes the run it finds
GameOverRetry_resume == Goto({"game_over"}, "playing")

\* game over, Retry (keyboard, mouse, controller): reset only
GameOverRetry == game_state = "game_over" /\ StartRun(1, NoFile)

\* game over, Main Menu (keyboard, mouse, controller A on focus 1, controller B)
GameOverToMenu == Goto({"game_over"}, "menu")

\* ESC / pause key or controller START while playing
Pause == Goto({"playing"}, "paused")

\* paused, Resume (keyboard, mouse, controller A on focus 0, controller B)
PauseResume == Goto({"paused"}, "playing")

\* paused, Main Menu
PauseToMenu == Goto({"paused"}, "menu")

\* an iteration of the main loop while the game is paused: the events of the
\* paused screen that do not leave it (focus up and down, music volume)
\* write neither RunState nor the settings of the model, the playing block
\* is skipped, the pause screen is drawn and the shake section is passed
PausedFrame(dt) ==
    /\ game_state = "paused"
    /\ wstate' = ShakeStep(wstate, game_state, dt)
    /\ ev' = [NoEvents EXCEPT !.idle = TRUE, !.dt = dt]
    /\ UNCHANGED <<game_state, max_health, save_data, settings, player_rect, hist, gameplay_focus, editor>>

\* main menu entries that lead to another screen
MenuTo(screen) ==
    screen \in {"level_select", "level_editor", "settings_menu"}
    /\ Goto({"menu"}, screen)

\* settings hub entries that lead to another screen
SettingsTo(screen) ==
    screen \in {"shop", "level_editor", "menu"}
    /\ Goto({"settings_menu"}, screen)

\* ESC in a menu screen, controller B in level select and shop
EscToMenu == Goto({"level_select", "level_editor", "settings_menu", "shop"}, "menu")

\* shop: buying the extra heart
ShopBuyExtraHeart ==
    /\ game_state = "shop"
    /\ ~save_data.extra_heart
    /\ save_data.total_coins >= EXTRA_HEART_COST
    /\ save_data' = [save_data EXCEPT !.total_coins = @ - EXTRA_HEART_COST,
                                      !.extra_heart = TRUE]
    /\ max_health' = BASE_MAX_HEALTH + 1
    /\ wstate' = [wstate EXCEPT !.max_health = BASE_MAX_HEALTH + 1,
                                !.health = BASE_MAX_HEALTH + 1]
    /\ ev' = NoEvents
    /\ UNCHANGED <<game_state, settings, player_rect, hist, gameplay_focus, editor>>

\* shop: buying the double jump
ShopBuyDoubleJump ==
    /\ game_state = "shop"
    /\ ~save_data.double_jump
    /\ save_data.total_coins >= DOUBLE_JUMP_COST
    /\ save_data' = [save_data EXCEPT !.total_coins = @ - DOUBLE_JUMP_COST,
                                      !.double_jump = TRUE]
    /\ ev' = NoEvents
    /\ UNCHANGED <<game_state, wstate, max_health, settings, player_rect, hist, gameplay_focus, editor>>

(***************************************************************************)
(* Specifications.  All of them run the same Frame and the same handlers;  *)
(* they differ in what the environment of the run offers.                  *)
(***************************************************************************)

\* the state after the construction code of main, for a save file with the
\* given upgrade and coins and a settings file with the given multiplier
\* save file sd, settings file with the given multiplier, and the player at
\* height y (player_rect is built once and never reset: after the first
\* landing it rests on the ground between runs)
InitAt(sd, dmg_mult, y) ==
    /\ game_state = "menu"
    /\ save_data = sd
    /\ settings = [enemy_damage_mult |-> dmg_mult, game_speed_mult |-> 10]
    /\ max_health = BASE_MAX_HEALTH + (IF sd.extra_heart THEN 1 ELSE 0)
    /\ wstate = reset_state(BASE_MAX_HEALTH + (IF sd.extra_heart THEN 1 ELSE 0))
    /\ player_rect = [y |-> y]
    /\ ev = NoEvents
    /\ hist = NewRunHist
    /\ gameplay_focus = 0
    /\ editor = NewEditor

\* the save file of a player who has recorded n runs at each of the levels
\* lvls, all of them with the given score and no coins, and who has unlocked
\* every achievement in runs left before they ended
SaveFile(extra_heart, double_jump, total_coins, n, lvls, score) ==
    [ extra_heart |-> extra_heart, double_jump |-> double_jump,
      total_coins |-> total_coins,
      best_score |-> IF n > 0 /\ lvls # {} THEN score ELSE 0,
      high_scores |->
          IF lvls = {} THEN <<>>
          ELSE Top(Repeat([score |-> score, coins |-> 0,
                           level |-> CHOOSE l \in lvls : \A m \in lvls : l <= m], n),
                   HIGH_SCORES_KEPT),
      scores_by_level |->
          [l \in (IF n > 0 THEN lvls ELSE {}) |->
              Top(Repeat([score |-> score, coins |-> 0, level |-> l], n),
                  LEVEL_SCORES_KEPT)],
      achievements |-> ACHIEVEMENTS ]

\* the levels a run can end on: 1 .. the highest of the selectable levels
\* and the level the coins of the model can buy
Levels ==
    1..(IF MaxSelectLevel > 1 + MaxTotalCoins \div LEVEL_UP_EVERY_COINS
        THEN MaxSelectLevel ELSE 1 + MaxTotalCoins \div LEVEL_UP_EVERY_COINS)

\* the state after construction (the player on the ground) for a save file
\* whose score tables are full of runs of one second at every level: a run
\* that ends within its first second leaves the tables as they are
InitWith(extra_heart, total_coins, dmg_mult) ==
    InitAt(SaveFile(extra_heart, FALSE, total_coins, HIGH_SCORES_KEPT, Levels, 1),
           dmg_mult, GROUND_Y)

\* an enemy entry of a level file, placed on the ground line
EnemyEntry(kind) ==
    [kind |-> kind, x |-> REFERENCE_WIDTH \div 2,
     y |-> REFERENCE_HEIGHT - ENEMY_SIZE \div 2]

\* level files: none, and files that place one or two enemies
CustomFiles ==
    {NoFile} \cup {[enemies |-> <<EnemyEntry(k)>>] : k \in CustomKinds}
             \cup {[enemies |-> <<EnemyEntry(k), EnemyEntry("walker")>>] :
                       k \in CustomKinds}

\* the enemy lists these files give a run
CustomEnemyLists ==
    {apply_custom_level_to_state(reset_state(BASE_MAX_HEALTH),
                                 editor_load_level(f)).enemies : f \in CustomFiles}

\* what the per-frame spawner may append in one frame at the given level
\* (the random position is taken at its lower end; the enemy_spawn_mult
\* setting is at its default 1.0)
SpawnChoices(level) ==
    {<<>>} \cup {<<spawn_air_enemy(k, REFERENCE_WIDTH + 20, REFERENCE_HEIGHT \div 5,
                                   world_enemy_spawn_mult(level))>> :
                    k \in SpawnKinds}

\* which enemies intersect the player, all of them on the same side
TouchChoices ==
    {<<>>} \cup {[i \in S |-> side] : S \in (SUBSET (1..MaxEnemies)) \ {{}},
                                      side \in {-1, 1}}

\* the oldest n enemies of a list, for every n the list may reach
OldestFirst ==
    {1..n : n \in 0..(MaxEnemies + BOSS_WAVE_GROUND_COUNT + BOSS_WAVE_FLYER_COUNT)}

\* Spec: enemies, damage, death and retry
Init == \E dm \in DamageMults : InitWith(FALSE, 0, dm)

CombatFrame ==
    \E dt \in DtSet, spawned \in SpawnChoices(wstate.level), flagged \in {{}, {1}},
       touch \in TouchChoices :
        Frame(dt, FALSE, FALSE, FALSE, spawned, 0, flagged, touch,
              FALSE, NoPlatforms, 0, PLAYER_START_X)

Next ==
    \/ CombatFrame
    \/ \E custom \in CustomFiles : MenuPlay(custom)
    \/ MenuPlayMouse
    \/ \E custom \in CustomFiles : LevelSelectStart(1, custom)
    \/ \E custom \in CustomFiles : EditorPlaytest(1, custom)
    \/ GameOverRetry
    \/ GameOverToMenu
    \/ \E screen \in {"level_select", "level_editor"} : MenuTo(screen)
    \/ EscToMenu

Spec == Init /\ [][Next]_vars

\* SpecLevel: coins, levels, boss waves and runs started at a chosen level;
\* enemy_damage_mult is 3.0, so the first hit of a walker or jumper kills
InitLevel == InitWith(FALSE, 0, 30)

LevelFrame ==
    \E dt \in DtSet, picked \in PickSet, flagged \in OldestFirst, S \in {{}, {1}} :
        Frame(dt, FALSE, FALSE, FALSE, <<>>, picked, flagged, [i \in S |-> 1],
              FALSE, NoPlatforms, 0, PLAYER_START_X)

NextLevel ==
    \/ LevelFrame
    \/ \E custom \in CustomFiles : MenuPlay(custom)
    \/ MenuPlayMouse
    \/ \E lvl \in 1..MaxSelectLevel, custom \in CustomFiles : LevelSelectStart(lvl, custom)
    \/ \E lvl \in 1..MaxSelectLevel, custom \in CustomFiles : EditorPlaytest(lvl, custom)
    \/ GameOverRetry
    \/ GameOverToMenu
    \/ \E screen \in {"level_select", "level_editor"} : MenuTo(screen)
    \/ EscToMenu

SpecLevel == InitLevel /\ [][NextLevel]_vars

\* SpecLife: the screens around a run, with pause, death and retry, for a
\* save file that leaves room for few coins; enemy_damage_mult is 3.0, so
\* the first hit kills
InitLife == InitWith(FALSE, MaxTotalCoins - 10, 30)

LifeFrame ==
    \E dt \in DtSet, picked \in {0, 5}, flagged \in OldestFirst, S \in {{}, {1}} :
        Frame(dt, FALSE, FALSE, FALSE, <<>>, picked, flagged, [i \in S |-> 1],
              FALSE, NoPlatforms, 0, PLAYER_START_X)

NextLife ==
    \/ LifeFrame
    \/ \E custom \in CustomFiles : MenuPlay(custom)
    \/ MenuPlayMouse
    \/ \E lvl \in {1, MaxSelectLevel}, custom \in CustomFiles : LevelSelectStart(lvl, custom)
    \/ \E lvl \in {1, MaxSelectLevel}, custom \in CustomFiles : EditorPlaytest(lvl, custom)
    \/ GameOverRetry
    \/ GameOverToMenu
    \/ Pause
    \/ PauseResume
    \/ PauseToMenu
    \/ \E screen \in {"level_select", "level_editor", "settings_menu"} : MenuTo(screen)
    \/ \E screen \in {"level_editor", "menu"} : SettingsTo(screen)
    \/ EscToMenu

SpecLife == InitLife /\ [][NextLife]_vars

\* SpecDash: the dash, the pause menu and the shop, in a run without
\* enemies and coins
InitDash == InitWith(FALSE, EXTRA_HEART_COST, 10)

DashFrame ==
    \E dt \in DtSet, move_left_down \in BOOLEAN, move_right_down \in BOOLEAN,
       dash_down \in BOOLEAN :
        Frame(dt, move_left_down, move_right_down, dash_down, <<>>, 0, {}, <<>>,
              FALSE, NoPlatforms, 0, PLAYER_START_X)

NextDash ==
    \/ DashFrame
    \/ MenuPlayMouse
    \/ Pause
    \/ PauseResume
    \/ PauseToMenu
    \/ MenuTo("settings_menu")
    \/ \E screen \in {"shop", "menu"} : SettingsTo(screen)
    \/ EscToMenu
    \/ ShopBuyExtraHeart

SpecDash == InitDash /\ [][NextDash]_vars

\* world.spawn_platform: a platform of the given type with its top at y
\* (x and width at the lower end of their random ranges, no drift; depth is
\* a cosmetic random draw)
spawn_platform(ptype, y) ==
    [ rect |-> Rect(REFERENCE_WIDTH + 20, y, 160, 24), type |-> ptype,
      vx |-> 0, vy |-> 0, fall_started |-> FALSE, fall_timer |-> 0,
      fragile_hits |-> 0 ]

\* heights at which the spawner places a platform: y_max = int(screen_h * 0.7)
\* is within reach of a ground jump
PlatformYs == {(REFERENCE_HEIGHT * 7) \div 10}

\* platform types the spawner draws
PlatformTypes == {"normal", "fragile"}

\* dt_scaled of the frames of SpecJump: 1/30 s at game_speed_mult 1.8
JumpDts == {6}

\* SpecJump: jumping, falling and platforms, in a run without enemies and
\* coins that starts with the player where main builds it; the save file
\* holds the price of the double jump
InitJump ==
    InitAt(SaveFile(FALSE, FALSE, DOUBLE_JUMP_COST, 0, {}, 0), 10, PLAYER_START_Y)

JumpFrame ==
    \E dt \in JumpDts, jump_down \in BOOLEAN, off \in {{}, {1}},
       over \in SUBSET (1..MaxPlatforms),
       spawned \in {<<>>} \cup {<<spawn_platform(t, y)>> : t \in PlatformTypes,
                                                          y \in PlatformYs} :
        Frame(dt, FALSE, FALSE, FALSE, <<>>, 0, {}, <<>>,
              jump_down, [off |-> off, over |-> over, spawned |-> spawned], 0,
              PLAYER_START_X)

NextJump ==
    \/ JumpFrame
    \/ MenuPlayMouse
    \/ MenuTo("settings_menu")
    \/ \E screen \in {"shop", "menu"} : SettingsTo(screen)
    \/ EscToMenu
    \/ ShopBuyDoubleJump

SpecJump == InitJump /\ [][NextJump]_vars

\* SpecFall: fall platforms, from the spawn to the cull, with a player who
\* starts on the ground and jumps onto them
InitFall == InitAt(SaveFile(FALSE, FALSE, 0, 0, {}, 0), 10, GROUND_Y)

FallFrame ==
    \E dt \in JumpDts, jump_down \in BOOLEAN, off \in {{}, {1}}, over \in {{}, {1}},
       spawned \in {<<>>} \cup {<<spawn_platform("fall", y)>> : y \in PlatformYs} :
        Frame(dt, FALSE, FALSE, FALSE, <<>>, 0, {}, <<>>,
              jump_down, [off |-> off, over |-> over, spawned |-> spawned], 0,
              PLAYER_START_X)

NextFall ==
    \/ FallFrame
    \/ MenuPlayMouse
    \/ Pause
    \/ PauseResume
    \/ PauseToMenu

SpecFall == InitFall /\ [][NextFall]_vars

\* SpecRestart: runs started one after another, from every screen that
\* starts one, by a player whom main has built in mid-air and who falls,
\* jumps, pauses, quits and dies; enemy_damage_mult is 3.0, so the first
\* hit kills
RestartFiles == {NoFile, [enemies |-> <<EnemyEntry("walker")>>]}

InitRestart ==
    InitAt(SaveFile(FALSE, FALSE, 0, HIGH_SCORES_KEPT, Levels, 1), 30, PLAYER_START_Y)

RestartFrame ==
    \E dt \in JumpDts, jump_down \in BOOLEAN, S \in {{}, {1}} :
        Frame(dt, FALSE, FALSE, FALSE, <<>>, 0, {}, [i \in S |-> 1],
              jump_down, NoPlatforms, 0, PLAYER_START_X)

NextRestart ==
    \/ RestartFrame
    \/ \E custom \in RestartFiles : MenuPlay(custom)
    \/ MenuPlayMouse
    \/ \E custom \in RestartFiles : LevelSelectStart(1, custom)
    \/ \E custom \in RestartFiles : EditorPlaytest(1, custom)
    \/ GameOverRetry
    \/ GameOverToMenu
    \/ Pause
    \/ PauseResume
    \/ PauseToMenu
    \/ \E screen \in {"level_select", "level_editor"} : MenuTo(screen)
    \/ EscToMenu

SpecRestart == InitRestart /\ [][NextRestart]_vars

\* SpecPause: a run with one walker of a custom level, paused and resumed
\* at any frame, also in mid-air and while the timers of a hit run
InitPause == InitAt(SaveFile(FALSE, FALSE, 0, 0, {}, 0), 10, GROUND_Y)

PauseFrame ==
    \E dt \in JumpDts, jump_down \in BOOLEAN, S \in {{}, {1}} :
        Frame(dt, FALSE, FALSE, FALSE, <<>>, 0, {}, [i \in S |-> 1],
              jump_down, NoPlatforms, 0, PLAYER_START_X)

NextPause ==
    \/ PauseFrame
    \/ MenuPlay([enemies |-> <<EnemyEntry("walker")>>])
    \/ Pause
    \/ \E dt \in JumpDts : PausedFrame(dt)
    \/ PauseResume
    \/ PauseToMenu
    \/ GameOverToMenu

SpecPause == InitPause /\ [][NextPause]_vars

\* scores of the runs of SpecScores (whole seconds)
ScoreSet == {1, 2, 3}

\* SpecScores: runs that end, and the score tables of the save file.  The
\* save file holds three runs of two seconds at level 1; the new runs are
\* started at level 2 against a jumper and enemy_damage_mult is 3.0, so the
\* first hit kills; Retry starts runs at level 1 that meet no enemy
InitScores == InitAt(SaveFile(FALSE, FALSE, 0, 3, {1}, 2), 30, GROUND_Y)

ScoresFrame ==
    \E dt \in DtSet, S \in {{}, {1}}, run_score \in ScoreSet :
        Frame(dt, FALSE, FALSE, FALSE, <<>>, 0, {}, [i \in S |-> 1],
              FALSE, NoPlatforms, run_score, PLAYER_START_X)

NextScores ==
    \/ ScoresFrame
    \/ LevelSelectStart(2, [enemies |-> <<EnemyEntry("jumper")>>])
    \/ GameOverRetry
    \/ GameOverToMenu
    \/ MenuTo("level_select")
    \/ EscToMenu

SpecScores == InitScores /\ [][NextScores]_vars

\* SpecCustom: runs started from level files
MaxFilePlatforms == 3
MaxFileCoins == 2
MaxFileEnemies == 1

\* the sequences over S of length at most n
SeqsUpTo(S, n) == UNION {[1..k -> S] : k \in 0..n}

\* entries as the editor writes them: the i-th platform by its top-left
\* corner and size (every second one fragile, the others without type), the
\* i-th coin and an enemy by their centre
PlatformEntry(i) ==
    IF i % 2 = 0
    THEN [x |-> 300 * i, y |-> 760 - 100 * i, w |-> 120 + 40 * i, h |-> 24,
          type |-> "fragile"]
    ELSE [x |-> 300 * i, y |-> 760 - 100 * i, w |-> 120 + 40 * i, h |-> 24]
CoinEntry(i) == [x |-> 315 * i, y |-> 705 - 100 * i]
EnemyEntries ==
    { [x |-> 720, y |-> 536, kind |-> "walker"],
      [x |-> 1200, y |-> 400, kind |-> "flyer"],
      [x |-> 1501, y |-> 1056] }

\* level files: missing, unreadable, without any list, with the three
\* lists, and with the platforms only
LevelFiles ==
    {NoFile, BadFile, EmptyObject}
    \cup { [platforms |-> [i \in 1..p |-> PlatformEntry(i)],
            coins |-> [i \in 1..c |-> CoinEntry(i)],
            enemies |-> es] :
              p \in 0..MaxFilePlatforms, c \in 0..MaxFileCoins,
              es \in SeqsUpTo(EnemyEntries, MaxFileEnemies) }
    \cup { [platforms |-> [i \in 1..p |-> PlatformEntry(i)]] : p \in 0..1 }

\* levels a run is started at
StartLevels == {1, 2}

InitCustom ==
    \E extra_heart \in BOOLEAN :
        InitAt(SaveFile(extra_heart, FALSE, 0, 0, {}, 0), 10, GROUND_Y)

NextCustom ==
    \/ \E custom \in LevelFiles : MenuPlay(custom)
    \/ MenuPlayMouse
    \/ \E lvl \in StartLevels, custom \in LevelFiles :
          LevelSelectStart(lvl, custom)
    \/ \E lvl \in StartLevels, custom \in LevelFiles :
          EditorPlaytest(lvl, custom)
    \/ Pause
    \/ PauseResume
    \/ PauseToMenu
    \/ \E screen \in {"level_select", "level_editor"} : MenuTo(screen)
    \/ EscToMenu

SpecCustom == InitCustom /\ [][NextCustom]_vars

(***************************************************************************)
(* The enemy update on its own: world.update_enemies applied to the enemy  *)
(* list of a run in progress, at level 1 and with the game_speed_mult      *)
(* setting at its default (game_speed = GAME_SPEED_BASE).                  *)
(***************************************************************************)

\* Enemy update of the playing block, alone
EnemyPass(dt, cd_draw) ==
    /\ game_state = "playing"
    /\ wstate' = [wstate EXCEPT
                    !.enemies = update_enemies_pass(@, dt, GAME_SPEED_BASE, cd_draw)]
    /\ ev' = [NoEvents EXCEPT
                !.pass = TRUE, !.dt = dt, !.cd_draw = cd_draw,
                !.leaping = Leaping(wstate.enemies, dt, cd_draw),
                !.alive = SubSeqAt([i \in 1..Len(wstate.enemies) |-> i],
                              (1..Len(wstate.enemies))
                                \ Flagged(wstate.enemies, dt, GAME_SPEED_BASE, cd_draw))]
    /\ UNCHANGED <<game_state, max_health, save_data, settings, player_rect, hist, gameplay_focus, editor>>

\* update lengths: none, and the frames of DtSet
PassDts == {0} \cup DtSet

\* draws of random.uniform(0, jump_interval)
CooldownDraws == {0, 100}

\* an enemy that has moved to x
MovedTo(e, x) == [e EXCEPT !.rect.x = x]

\* enemies of a run in progress, close to the edges where the cull acts: a
\* standing walker, a flyer and a boss wave flyer about to leave on the
\* left, a spawned jumper on the left, one spawned beyond the right limit,
\* a jumper and an enemy of unknown kind from a level file, and a walker
\* placed below the screen
SampleEnemies ==
    { CustomEnemy([kind |-> "walker", x |-> -60, y |-> 900]),
      MovedTo(spawn_air_enemy("flyer", REFERENCE_WIDTH + 20, REFERENCE_HEIGHT \div 5, 100), -100),
      MovedTo(BossWave(5)[BOSS_WAVE_GROUND_COUNT + 1], -110),
      spawn_ground_enemy("jumper", -150),
      spawn_ground_enemy("jumper", REFERENCE_WIDTH + 160 + 2 * BOSS_WAVE_GROUND_SPACING),
      CustomEnemy([kind |-> "jumper", x |-> -120, y |-> 1000]),
      CustomEnemy([kind |-> "ghost", x |-> -130, y |-> 600]),
      CustomEnemy([kind |-> "walker", x |-> 40, y |-> REFERENCE_HEIGHT + 230]) }

InitEnemies ==
    /\ \E es \in SeqsUpTo(SampleEnemies, MaxEnemies) :
          wstate = [reset_state(BASE_MAX_HEALTH) EXCEPT !.enemies = es]
    /\ game_state = "playing"
    /\ save_data = SaveFile(FALSE, FALSE, 0, 0, {}, 0)
    /\ settings = [enemy_damage_mult |-> 10, game_speed_mult |-> 10]
    /\ max_health = BASE_MAX_HEALTH
    /\ player_rect = [y |-> GROUND_Y]
    /\ ev = NoEvents
    /\ hist = NewRunHist
    /\ gameplay_focus = 0
    /\ editor = NewEditor

NextEnemies == \E dt \in PassDts, cd_draw \in CooldownDraws : EnemyPass(dt, cd_draw)

SpecEnemies == InitEnemies /\ [][NextEnemies]_vars

\* SpecJumper: jumpers of a level file whose first cooldown is drawn at
\* jump_interval
JumperDts == {0, 6, 50}

\* a jumper on the ground line and one placed above it
JumperFiles ==
    { [enemies |-> <<EnemyEntry("jumper")>>],
      [enemies |-> <<EnemyEntry("jumper"),
                     [kind |-> "jumper", x |-> 700, y |-> 700]>>] }

InitJumper == InitAt(SaveFile(FALSE, FALSE, 0, 0, {}, 0), 10, GROUND_Y)

NextJumper ==
    \/ \E dt \in JumperDts :
          EnemyPass(dt, ENEMY_BEHAVIOR_CONFIG.jumper.jump_interval)
    \/ \E custom \in JumperFiles : LevelSelectStart(1, custom)
    \/ MenuTo("level_select")
    \/ Pause
    \/ PauseToMenu

SpecJumper == InitJumper /\ [][NextJumper]_vars

\* SpecKnock: hits and movement of a player who stands at the left
\* margin, at the start position or at the right edge of the playfield
XStarts == {LEFT_MARGIN, PLAYER_START_X, REFERENCE_WIDTH - PLAYER_W}

InitKnock == InitWith(FALSE, 0, 10)

KnockFrame ==
    \E dt \in DtSet, move_left_down \in BOOLEAN, move_right_down \in BOOLEAN,
       touch \in {<<>>, <<-1>>, <<1>>}, x \in XStarts :
        Frame(dt, move_left_down, move_right_down, FALSE, <<>>, 0, {}, touch,
              FALSE, NoPlatforms, 0, x)

NextKnock ==
    \/ KnockFrame
    \/ MenuPlay([enemies |-> <<EnemyEntry("walker")>>])
    \/ GameOverRetry
    \/ GameOverToMenu

SpecKnock == InitKnock /\ [][NextKnock]_vars

\* SpecUnknown: runs of custom levels that place an enemy of a kind that
\* ENEMY_CONFIG does not know, alone or behind a walker
UnknownKinds == {"ghost"}

UnknownFiles ==
    {[enemies |-> <<EnemyEntry(k)>>] : k \in UnknownKinds}
    \cup {[enemies |-> <<EnemyEntry("walker"), EnemyEntry(k)>>] : k \in UnknownKinds}

InitUnknown == InitWith(FALSE, 0, 10)

UnknownTouches == {<<>>, <<1>>} \cup {[i \in {2} |-> 1]} \cup {<<1, 1>>}

UnknownFrame ==
    \E dt \in DtSet, touch \in UnknownTouches :
        \/ Frame(dt, FALSE, FALSE, FALSE, <<>>, 0, {}, touch, FALSE, NoPlatforms, 0,
                 PLAYER_START_X)
        \/ FrameCrash(dt, <<>>, {}, touch)

NextUnknown ==
    \/ UnknownFrame
    \/ \E custom \in UnknownFiles : MenuPlay(custom)
    \/ GameOverRetry
    \/ GameOverToMenu

SpecUnknown == InitUnknown /\ [][NextUnknown]_vars

\* SpecAch: the achievements of a player who has unlocked none: runs with
\* coins, level-ups and hits that do not kill at once
InitAch ==
    InitAt([SaveFile(FALSE, FALSE, 0, HIGH_SCORES_KEPT, Levels, 1)
               EXCEPT !.achievements = {}], 10, GROUND_Y)

AchFrame ==
    \E picked \in {0, 40}, S \in {{}, {1}} :
        Frame(6, FALSE, FALSE, FALSE, <<>>, picked, {}, [i \in S |-> 1],
              FALSE, NoPlatforms, 0, PLAYER_START_X)

NextAch ==
    \/ AchFrame
    \/ MenuPlay([enemies |-> <<EnemyEntry("walker")>>])
    \/ \E lvl \in {1, 5} : LevelSelectStart(lvl, [enemies |-> <<EnemyEntry("jumper")>>])
    \/ MenuTo("level_select")
    \/ GameOverRetry
    \/ GameOverToMenu

SpecAch == InitAch /\ [][NextAch]_vars

(***************************************************************************)
(* The timer-driven spawners: trees, coins, platforms                      *)
(***************************************************************************)

\* "now_ms - last >= DELAY_BASE / settings["game_speed_mult"]", with the
\* multiplier in tenths
SpawnDue(now_ms, last, base, mult) == (now_ms - last) * mult >= base * 10

\* a spawner that catches up: one entity for each delay that has gone by
SpawnTick_catchup(now_ms, last, base, mult) ==
    IF SpawnDue(now_ms, last, base, mult)
    THEN [n |-> ((now_ms - last) * mult) \div (base * 10), last |-> now_ms]
    ELSE [n |-> 0, last |-> last]

\* one spawner of one frame: the number of entities it appends and the value
\* it leaves in its last_*_spawn
SpawnTick(now_ms, last, base, mult) ==
    IF SpawnDue(now_ms, last, base, mult)
    THEN [n |-> 1, last |-> now_ms]
    ELSE [n |-> 0, last |-> last]

\* world.spawn_tree without a tree image, world.spawn_coin in midair
spawn_tree(x) == Rect(x, REFERENCE_HEIGHT - 96, 64, 96)
spawn_coin(x, y) == Rect(x, y, COIN_SIZE, COIN_SIZE)

\* SPAWNING: Trees / Coins / Platforms of the playing block, alone; the
\* random positions and the platform type are fixed
SpawnSection(now_ms) ==
    /\ game_state = "playing"
    /\ now_ms >= hist.now_ms
    /\ \E tree \in {SpawnTick(now_ms, wstate.last_tree_spawn,
                              OBSTACLE_SPAWN_DELAY_BASE, settings.game_speed_mult)} :
       \E coin \in {SpawnTick(now_ms, wstate.last_coin_spawn,
                              COIN_SPAWN_DELAY_BASE, settings.game_speed_mult)} :
       \E platform \in {SpawnTick(now_ms, wstate.last_platform_spawn,
                                  PLATFORM_SPAWN_DELAY_BASE, settings.game_speed_mult)} :
         /\ wstate' = [wstate EXCEPT
                 !.trees = @ \o Repeat(spawn_tree(REFERENCE_WIDTH + 10), tree.n),
                 !.last_tree_spawn = tree.last,
                 !.coins = @ \o Repeat(spawn_coin(REFERENCE_WIDTH + 40,
                                                  REFERENCE_HEIGHT \div 4), coin.n),
                 !.last_coin_spawn = coin.last,
                 !.platforms = @ \o Repeat(spawn_platform("normal", (REFERENCE_HEIGHT * 7) \div 10),
                                           platform.n),
                 !.last_platform_spawn = platform.last]
         /\ ev' = [NoEvents EXCEPT
                     !.spawning = TRUE, !.now_ms = now_ms,
                     !.since = now_ms - hist.now_ms,
                     !.spawn_n = [tree |-> tree.n, coin |-> coin.n,
                                  platform |-> platform.n]]
         /\ hist' = [hist EXCEPT
                       !.now_ms = now_ms,
                       !.spawn_ms = [tree     |-> IF tree.n > 0 THEN now_ms ELSE @.tree,
                                     coin     |-> IF coin.n > 0 THEN now_ms ELSE @.coin,
                                     platform |-> IF platform.n > 0 THEN now_ms
                                                  ELSE @.platform]]
    /\ UNCHANGED <<game_state, max_health, save_data, settings, player_rect, gameplay_focus, editor>>

\* SpecSpawn: the spawners of runs that are left through the pause menu and
\* started again, at three game speeds, with frames that follow at once,
\* after a while and after a pause
MaxClockMs == 6000

\* ms from the reading of the clock in one frame of a run to the reading in
\* the next, which may belong to the next run
ClockSteps == {500, 900, 3300}

\* settings["game_speed_mult"] in tenths: the slider's ends and the default
GameSpeedMults == {5, 10, 20}

InitSpawn ==
    /\ wstate = reset_state(BASE_MAX_HEALTH)
    /\ game_state = "playing"
    /\ save_data = SaveFile(FALSE, FALSE, 0, 0, {}, 0)
    /\ \E m \in GameSpeedMults :
          settings = [enemy_damage_mult |-> 10, game_speed_mult |-> m]
    /\ max_health = BASE_MAX_HEALTH
    /\ player_rect = [y |-> GROUND_Y]
    /\ ev = NoEvents
    /\ hist = NewRunHist
    /\ gameplay_focus = 0
    /\ editor = NewEditor

SpawnFrame ==
    \E step \in ClockSteps :
        /\ hist.now_ms + step <= MaxClockMs
        /\ SpawnSection(hist.now_ms + step)

NextSpawn ==
    \/ SpawnFrame
    \/ Pause
    \/ PauseResume
    \/ PauseToMenu
    \/ MenuPlayMouse

SpecSpawn == InitSpawn /\ [][NextSpawn]_vars

(***************************************************************************)
(* Particles.  life and max_life in centiseconds, vx and vy in hundredths   *)
(* of px/s, x and y in ten-thousandths of a pixel.                          *)
(***************************************************************************)

\* a particle update that lets a particle live through the update in which
\* its life reaches max_life
update_particles_late(particles, dt, gravity) ==
    LET aged == [i \in 1..Len(particles) |->
                    [particles[i] EXCEPT !.life = @ + dt]]
        moved == [i \in 1..Len(aged) |->
                    LET vy == aged[i].vy + (gravity * 20 * dt) \div 100
                    IN [aged[i] EXCEPT !.vy = vy, !.x = @ + aged[i].vx * dt,
                                       !.y = @ + vy * dt]]
    IN SubSeqAt(moved, {i \in 1..Len(aged) : ~(aged[i].life > aged[i].max_life)})

\* world.update_particles
update_particles(particles, dt, gravity) ==
    LET aged == [i \in 1..Len(particles) |->
                    [particles[i] EXCEPT !.life = @ + dt]]
        moved == [i \in 1..Len(aged) |->
                    LET vy == aged[i].vy + (gravity * 20 * dt) \div 100
                    IN [aged[i] EXCEPT !.vy = vy, !.x = @ + aged[i].vx * dt,
                                       !.y = @ + vy * dt]]
    IN SubSeqAt(moved, {i \in 1..Len(aged) : ~(aged[i].life >= aged[i].max_life)})

\* a particle as spawn_dust_particles and spawn_spark_burst make it: at the
\* player, life 0.0, the given velocity and max_life
Particle(vx, vy, max_life) ==
    [x |-> PLAYER_START_X * 10000, y |-> GROUND_Y * 10000, vx |-> vx, vy |-> vy,
     life |-> 0, max_life |-> max_life]

\* UPDATE PARTICLES of the playing block, alone
ParticlePass(dt) ==
    /\ game_state = "playing"
    /\ wstate' = [wstate EXCEPT
                    !.dust_particles = update_particles(@, dt, GRAVITY),
                    !.spark_particles = update_particles(@, dt, GRAVITY)]
    /\ ev' = [NoEvents EXCEPT !.particles = TRUE, !.dt = dt,
                               !.expired = Len(wstate.dust_particles)
                                             + Len(wstate.spark_particles)
                                             - Len(wstate'.dust_particles)
                                             - Len(wstate'.spark_particles)]
    /\ UNCHANGED <<game_state, max_health, save_data, settings, player_rect, hist, gameplay_focus, editor>>

\* SpecParticles: the particles of a run whose bursts have been emitted;
\* the main loop keeps updating them, with dt_scaled > 0 again and again
MaxParticles == 2

\* dust (max_life 0.35 .. 0.6 s) and sparks (0.4 .. 0.7 s)
DustSamples == {Particle(-6000, -2400, 36), Particle(16000, 0, 60)}
SparkSamples == {Particle(14000, -14000, 42), Particle(0, 26000, 70)}

InitParticles ==
    /\ \E dust \in SeqsUpTo(DustSamples, MaxParticles),
          spark \in SeqsUpTo(SparkSamples, MaxParticles) :
          wstate = [reset_state(BASE_MAX_HEALTH) EXCEPT !.dust_particles = dust,
                                                        !.spark_particles = spark]
    /\ game_state = "playing"
    /\ save_data = SaveFile(FALSE, FALSE, 0, 0, {}, 0)
    /\ settings = [enemy_damage_mult |-> 10, game_speed_mult |-> 10]
    /\ max_health = BASE_MAX_HEALTH
    /\ player_rect = [y |-> GROUND_Y]
    /\ ev = NoEvents
    /\ hist = NewRunHist
    /\ gameplay_focus = 0
    /\ editor = NewEditor

\* an update over no time
ParticleIdle == ParticlePass(0)

\* an update of a frame of the main loop
ParticleTick == \E dt \in DtSet : ParticlePass(dt)

NextParticles == ParticleIdle \/ ParticleTick

SpecParticles == InitParticles /\ [][NextParticles]_vars /\ WF_vars(ParticleTick)

(***************************************************************************)
(* Score time.  The wall clock in 1/300 s, dt_scaled and score_time in      *)
(* 1/3000 s, game_speed_mult in tenths.                                     *)
(***************************************************************************)

\* the cap of a frame's dt, 1/30 s
MAX_FRAME_DT == 10

\* dt = min(now - last_time, 1 / 30)
FrameDt(elapsed) == IF elapsed < MAX_FRAME_DT THEN elapsed ELSE MAX_FRAME_DT

\* dt_scaled = dt * settings.get("game_speed_mult", 1.0)
DtScaled(dt, st) == dt * st.game_speed_mult

\* wstate["score_time"] = score_time + dt
ScoreTimeAfter(score_time, dt, st) == score_time + dt * 10

\* the longest run followed, 2 s
MaxScoreTime == 6000

\* wall-clock times between two frames: 1/60 s, 1/30 s, 1/20 s
ElapsedSet == {5, 10, 15}

\* the clock of the main loop and the score_time write of a playing frame
ScoreTick(elapsed) ==
    /\ game_state = "playing"
    /\ wstate.score_time < MaxScoreTime
    /\ wstate' = [wstate EXCEPT
                    !.score_time = ScoreTimeAfter(@, FrameDt(elapsed), settings)]
    /\ ev' = [NoEvents EXCEPT !.ticked = TRUE, !.dt = FrameDt(elapsed),
                               !.dt_scaled = DtScaled(FrameDt(elapsed), settings)]
    /\ UNCHANGED <<game_state, max_health, save_data, settings, player_rect, hist, gameplay_focus, editor>>

InitScoreTime ==
    /\ wstate = reset_state(BASE_MAX_HEALTH)
    /\ game_state = "playing"
    /\ save_data = SaveFile(FALSE, FALSE, 0, 0, {}, 0)
    /\ \E m \in GameSpeedMults :
          settings = [enemy_damage_mult |-> 10, game_speed_mult |-> m]
    /\ max_health = BASE_MAX_HEALTH
    /\ player_rect = [y |-> GROUND_Y]
    /\ ev = NoEvents
    /\ hist = NewRunHist
    /\ gameplay_focus = 0
    /\ editor = NewEditor

ScoreFrame == \E elapsed \in ElapsedSet : ScoreTick(elapsed)

NextScoreTime == ScoreFrame \/ Pause \/ PauseResume

SpecScoreTime == InitScoreTime /\ [][NextScoreTime]_vars

(***************************************************************************)
(* Coins, with their rectangles                                             *)
(***************************************************************************)

\* pygame.Rect.colliderect for rectangles of positive size
colliderect(a, b) ==
    /\ a.x < b.x + b.w
    /\ b.x < a.x + a.w
    /\ a.y < b.y + b.h
    /\ b.y < a.y + a.h

\* the coin c after "c.x -= int(speed * dt_scaled)"
CoinMoved(c, speed, dt) == [c EXCEPT !.x = @ - ScrollDx(speed, dt)]

\* "if c.right < -50: continue"
CoinGone(c) == c.x + c.w < -50

\* the spark of a pickup burst that the model follows, from the centre of
\* the coin
SparkAt(c) ==
    [x |-> centerx(c) * 10000, y |-> centery(c) * 10000, vx |-> 14000, vy |-> -14000,
     life |-> 0, max_life |-> 42]

\* a Coins section that counts a coin and leaves it in the list
CoinsSection_keep(w, speed, dt, player) ==
    LET moved == [i \in 1..Len(w.coins) |-> CoinMoved(w.coins[i], speed, dt)]
        got == {i \in 1..Len(moved) : ~CoinGone(moved[i]) /\ colliderect(moved[i], player)}
    IN [w EXCEPT !.coins = SubSeqAt(moved, {i \in 1..Len(moved) : ~CoinGone(moved[i])}),
                 !.coins_collected_run = @ + Cardinality(got),
                 !.spark_particles =
                     @ \o [k \in 1..Len(SubSeqAt(moved, got)) |-> SparkAt(SubSeqAt(moved, got)[k])]]

\* Coins: scroll, drop what has left the screen, collect what intersects
\* the player
CoinsSection(w, speed, dt, player) ==
    LET moved == [i \in 1..Len(w.coins) |-> CoinMoved(w.coins[i], speed, dt)]
        got == {i \in 1..Len(moved) : ~CoinGone(moved[i]) /\ colliderect(moved[i], player)}
    IN [w EXCEPT !.coins = SubSeqAt(moved, {i \in 1..Len(moved) :
                                                ~CoinGone(moved[i]) /\ i \notin got}),
                 !.coins_collected_run = @ + Cardinality(got),
                 !.spark_particles =
                     @ \o [k \in 1..Len(SubSeqAt(moved, got)) |-> SparkAt(SubSeqAt(moved, got)[k])]]

\* the scroll speed in px/s: GAME_SPEED_BASE * game_speed_mult *
\* world_scroll_mult, in the first world (scroll_speed_mult 1.0)
CoinScrollSpeed(st) == (GAME_SPEED_BASE * st.game_speed_mult) \div 10

\* the player rectangle with its left edge at x
PlayerRectAt(x) == Rect(x, player_rect.y, PLAYER_W, PLAYER_H)

\* the Coins section of a playing frame, alone; a pickup that brings the
\* run to 100 coins awards coins_100
CoinPass(dt, x) ==
    /\ game_state = "playing"
    /\ wstate' = CoinsSection(wstate, CoinScrollSpeed(settings), dt, PlayerRectAt(x))
    /\ save_data' = IF wstate'.coins_collected_run > wstate.coins_collected_run
                       /\ wstate'.coins_collected_run >= 100
                    THEN award_achievement(save_data, "coins_100")
                    ELSE save_data
    /\ ev' = [NoEvents EXCEPT !.coin_pass = TRUE, !.dt = dt, !.x = x,
                               !.picked = wstate'.coins_collected_run
                                             - wstate.coins_collected_run]
    /\ UNCHANGED <<game_state, max_health, settings, player_rect, hist, gameplay_focus, editor>>

\* SpecCoins: the coins of a run, from where they are to the pickup or the
\* left edge, with the player standing on the ground line
MaxCoins == 2

\* coins on their way to the player, over the player's head and behind
\* the player
CoinSamples ==
    {spawn_coin(PLAYER_START_X + 112, GROUND_Y + 20),
     spawn_coin(PLAYER_START_X + 92, GROUND_Y + 40),
     spawn_coin(0, GROUND_Y - 120),
     spawn_coin(-30, GROUND_Y + 20)}

InitCoins ==
    /\ \E coins \in SeqsUpTo(CoinSamples, MaxCoins) :
          wstate = [reset_state(BASE_MAX_HEALTH) EXCEPT !.coins = coins]
    /\ game_state = "playing"
    /\ save_data = SaveFile(FALSE, FALSE, 0, 0, {}, 0)
    /\ settings = [enemy_damage_mult |-> 10, game_speed_mult |-> 10]
    /\ max_health = BASE_MAX_HEALTH
    /\ player_rect = [y |-> GROUND_Y]
    /\ ev = NoEvents
    /\ hist = NewRunHist
    /\ gameplay_focus = 0
    /\ editor = NewEditor

CoinFrame == \E dt \in PassDts : CoinPass(dt, PLAYER_START_X)

NextCoins == CoinFrame

SpecCoins == InitCoins /\ [][NextCoins]_vars

(***************************************************************************)
(* The gameplay settings screen.  Multipliers in tenths; the sliders move   *)
(* in steps of 0.1 and adjust_setting rounds to two decimals, which gives   *)
(* the tenth the float sum stands for.  An index into                       *)
(* GAMEPLAY_SLIDER_ORDER is the Python index, from 0.                       *)
(***************************************************************************)

DIFFICULTY_ORDER == <<"Easy", "Normal", "Hard">>

DIFFICULTY_PRESETS ==
    [ Easy   |-> [game_speed_mult |-> 9, enemy_spawn_mult |-> 7, enemy_damage_mult |-> 7],
      Normal |-> [game_speed_mult |-> 10, enemy_spawn_mult |-> 10, enemy_damage_mult |-> 10],
      Hard   |-> [game_speed_mult |-> 11, enemy_spawn_mult |-> 13, enemy_damage_mult |-> 13] ]

GAMEPLAY_SLIDER_ORDER ==
    <<"move_speed_mult", "gravity_mult", "jump_mult", "game_speed_mult",
      "enemy_spawn_mult", "enemy_damage_mult">>

GAMEPLAY_SLIDER_CONFIG ==
    [ move_speed_mult   |-> [min |-> 5, max |-> 20, step |-> 1],
      gravity_mult      |-> [min |-> 5, max |-> 20, step |-> 1],
      jump_mult         |-> [min |-> 5, max |-> 20, step |-> 1],
      game_speed_mult   |-> [min |-> 5, max |-> 20, step |-> 1],
      enemy_spawn_mult  |-> [min |-> 5, max |-> 30, step |-> 1],
      enemy_damage_mult |-> [min |-> 5, max |-> 30, step |-> 1] ]

\* Python max and min of two numbers
Max(a, b) == IF a >= b THEN a ELSE b
Min(a, b) == IF a <= b THEN a ELSE b

\* the value adjust_setting has before the clamp
AdjustRaw(st, cfg_map, key, delta) == st[key] + cfg_map[key].step * delta

\* an adjust_setting without the clamp
adjust_setting_unclamped(st, cfg_map, key, delta) ==
    IF key \notin DOMAIN cfg_map THEN st
    ELSE [st EXCEPT ![key] = AdjustRaw(st, cfg_map, key, delta)]

\* adjust_setting: the settings afterwards
adjust_setting(st, cfg_map, key, delta) ==
    IF key \notin DOMAIN cfg_map THEN st
    ELSE [st EXCEPT ![key] = clamp(AdjustRaw(st, cfg_map, key, delta),
                                   cfg_map[key].min, cfg_map[key].max)]

\* seq.index(current), from 0; 0 if current is not in seq
IndexIn(seq, current) ==
    IF \E i \in 1..Len(seq) : seq[i] = current
    THEN (CHOOSE i \in 1..Len(seq) : seq[i] = current
                                      /\ \A k \in 1..(i - 1) : seq[k] # current) - 1
    ELSE 0

\* cycle_value(seq, current, delta)[0]
cycle_value(seq, current, delta) ==
    IF seq = <<>> THEN current
    ELSE seq[((IndexIn(seq, current) + delta) % Len(seq)) + 1]

\* "Cycle difficulty": the next difficulty and its preset written over the
\* settings
CycleDifficulty(st, delta) ==
    LET new_name == cycle_value(DIFFICULTY_ORDER, st.difficulty, delta)
        preset == DIFFICULTY_PRESETS[new_name]
    IN [k \in DOMAIN st |->
           IF k = "difficulty" THEN new_name
           ELSE IF k \in DOMAIN preset THEN preset[k] ELSE st[k]]

\* adjustments followed in one launch of the program
MaxAdjusts == 3

\* a settings event: the settings afterwards, the key adjusted (with the
\* value before the clamp) and the index looked up
SettingsEvent(st, focus, key, raw, lookup) ==
    /\ game_state = "gameplay_settings"
    /\ hist.adjusts < MaxAdjusts
    /\ settings' = st
    /\ gameplay_focus' = focus
    /\ hist' = [hist EXCEPT !.adjusts = @ + 1]
    /\ ev' = [NoEvents EXCEPT !.adjust_key = key, !.adjust_raw = raw, !.lookup = lookup]
    /\ UNCHANGED <<game_state, wstate, max_health, save_data, player_rect, editor>>

\* the slider at index idx of GAMEPLAY_SLIDER_ORDER is adjusted by delta
SliderEvent(focus, idx, delta) ==
    /\ idx \in 0..(Len(GAMEPLAY_SLIDER_ORDER) - 1)
    /\ SettingsEvent(adjust_setting(settings, GAMEPLAY_SLIDER_CONFIG,
                                    GAMEPLAY_SLIDER_ORDER[idx + 1], delta),
                     focus, GAMEPLAY_SLIDER_ORDER[idx + 1],
                     AdjustRaw(settings, GAMEPLAY_SLIDER_CONFIG,
                               GAMEPLAY_SLIDER_ORDER[idx + 1], delta),
                     {idx})

\* a lookup of GAMEPLAY_SLIDER_ORDER that raises IndexError: nothing in main
\* catches it and the program ends
LookupCrash(focus, idx) ==
    /\ game_state = "gameplay_settings"
    /\ idx \notin 0..(Len(GAMEPLAY_SLIDER_ORDER) - 1)
    /\ game_state' = "crashed"
    /\ gameplay_focus' = focus
    /\ ev' = [NoEvents EXCEPT !.lookup = {idx}]
    /\ UNCHANGED <<wstate, max_health, save_data, settings, player_rect, hist, editor>>

\* a focus move
FocusEvent(focus) ==
    /\ game_state = "gameplay_settings"
    /\ gameplay_focus' = focus
    /\ ev' = NoEvents
    /\ UNCHANGED <<game_state, wstate, max_health, save_data, settings, player_rect, hist, editor>>

\* settings hub, Gameplay (keyboard, mouse, controller)
OpenGameplaySettings ==
    /\ game_state = "settings_menu"
    /\ game_state' = "gameplay_settings"
    /\ gameplay_focus' = 0
    /\ ev' = NoEvents
    /\ UNCHANGED <<wstate, max_health, save_data, settings, player_rect, hist, editor>>

\* gameplay settings, ESC or controller B
GameplayToMenu ==
    /\ game_state = "gameplay_settings"
    /\ game_state' = "menu"
    /\ ev' = NoEvents
    /\ UNCHANGED <<wstate, max_health, save_data, settings, player_rect, hist, gameplay_focus, editor>>

\* gameplay settings, keys UP and DOWN: max_idx = len(GAMEPLAY_SLIDER_ORDER)
GameplayKeyFocus(dir) ==
    FocusEvent(IF dir < 0 THEN Max(0, gameplay_focus - 1)
               ELSE Min(Len(GAMEPLAY_SLIDER_ORDER), gameplay_focus + 1))

\* gameplay settings, keys LEFT (delta -1) and RIGHT, RETURN, SPACE (+1);
\* on the difficulty row RETURN and SPACE cycle forward
GameplayKeyAdjust(delta) ==
    IF gameplay_focus = 0
    THEN SettingsEvent(CycleDifficulty(settings, delta), gameplay_focus, "difficulty", 0, {})
    ELSE SliderEvent(gameplay_focus, gameplay_focus - 1, delta)

\* gameplay settings, click on the i-th slider row
GameplayMouse(i) == SliderEvent(i, i, 1)

\* gameplay settings, controller hat (hx, hy):
\* max_idx = len(GAMEPLAY_SLIDER_ORDER) - 1
GameplayHat(hx, hy) ==
    \E focus \in {IF hy > 0 THEN Max(0, gameplay_focus - 1)
                  ELSE IF hy < 0
                       THEN Min(Len(GAMEPLAY_SLIDER_ORDER) - 1, gameplay_focus + 1)
                       ELSE gameplay_focus} :
        IF hx = 0 THEN FocusEvent(focus)
        ELSE IF focus < Len(GAMEPLAY_SLIDER_ORDER) THEN SliderEvent(focus, focus, hx)
        ELSE LookupCrash(focus, focus)

\* gameplay settings, controller button A
GameplayButtonA ==
    IF gameplay_focus = 0
    THEN SettingsEvent(CycleDifficulty(settings, 1), gameplay_focus, "difficulty", 0, {})
    ELSE SliderEvent(gameplay_focus, gameplay_focus - 1, 1)

\* the settings of _default_save with every slider at v
SettingsAt(v) ==
    [ difficulty |-> "Normal", move_speed_mult |-> v, gravity_mult |-> v,
      jump_mult |-> v, game_speed_mult |-> v, enemy_spawn_mult |-> v,
      enemy_damage_mult |-> v ]

\* settings files: the defaults, every slider at its minimum, the sliders
\* at their maxima
SettingsFiles ==
    {SettingsAt(10), SettingsAt(5),
     [SettingsAt(20) EXCEPT !.enemy_spawn_mult = 30, !.enemy_damage_mult = 30]}

\* SpecSettings: the gameplay settings screen under keyboard, mouse and
\* controller events in any order
InitSettings ==
    /\ wstate = reset_state(BASE_MAX_HEALTH)
    /\ game_state = "settings_menu"
    /\ save_data = SaveFile(FALSE, FALSE, 0, 0, {}, 0)
    /\ settings \in SettingsFiles
    /\ max_health = BASE_MAX_HEALTH
    /\ player_rect = [y |-> PLAYER_START_Y]
    /\ ev = NoEvents
    /\ hist = NewRunHist
    /\ gameplay_focus = 0
    /\ editor = NewEditor

NextSettings ==
    \/ OpenGameplaySettings
    \/ GameplayToMenu
    \/ MenuTo("settings_menu")
    \/ \E dir \in {-1, 1} : GameplayKeyFocus(dir)
    \/ \E delta \in {-1, 1} : GameplayKeyAdjust(delta)
    \/ \E i \in 0..(Len(GAMEPLAY_SLIDER_ORDER) - 1) : GameplayMouse(i)
    \/ \E hx \in {-1, 0, 1}, hy \in {-1, 0, 1} : GameplayHat(hx, hy)
    \/ GameplayButtonA

SpecSettings == InitSettings /\ [][NextSettings]_vars

(***************************************************************************)
(* The level editor: level data, undo stack and redo stack.  The stacks     *)
(* hold snapshots and replaced level data; the level data being edited is   *)
(* never an object of a stack, so that the edits in place reach no stack    *)
(* entry and the lists can be followed as values.                           *)
(***************************************************************************)

\* editor_push_undo: the stack with a copy of the three lists on top
editor_push_undo(stack, editor_data) ==
    Append(stack, [platforms |-> editor_data.platforms, coins |-> editor_data.coins,
                   enemies |-> editor_data.enemies])

\* list.pop(): the stack without its top
Popped(stack) == SubSeq(stack, 1, Len(stack) - 1)

\* Undo (Ctrl+Z)
EditorUndo(ed) ==
    IF ed.undo_stack = <<>> THEN ed
    ELSE [data |-> ed.undo_stack[Len(ed.undo_stack)],
          undo_stack |-> Popped(ed.undo_stack),
          redo_stack |-> Append(ed.redo_stack, ed.data)]

\* a redo that does not put the replaced level data on the undo stack
EditorRedo_forgets(ed) ==
    IF ed.redo_stack = <<>> THEN ed
    ELSE [data |-> ed.redo_stack[Len(ed.redo_stack)],
          undo_stack |-> ed.undo_stack,
          redo_stack |-> Popped(ed.redo_stack)]

\* Redo (Ctrl+Y)
EditorRedo(ed) ==
    IF ed.redo_stack = <<>> THEN ed
    ELSE [data |-> ed.redo_stack[Len(ed.redo_stack)],
          undo_stack |-> Append(ed.undo_stack, ed.data),
          redo_stack |-> Popped(ed.redo_stack)]

\* an edit with its undo snapshot: push, clear the redo stack, then change
\* the level data
EditorEdit(ed, data) ==
    [data |-> data, undo_stack |-> editor_push_undo(ed.undo_stack, ed.data),
     redo_stack |-> <<>>]

\* objects of a level and snapshots of a stack that the model follows
MaxEditorItems == 2
MaxUndo == 2

\* grid-snapped points of the editor
EditorSpots == {[x |-> 288, y |-> 428], [x |-> 672, y |-> 428]}

\* the lists of the level data that hold points
EditorLists == {"coins", "enemies"}

\* what a list of the level data holds at a point
EditorItem(arr, spot) ==
    IF arr = "enemies" THEN [x |-> spot.x, y |-> spot.y, kind |-> "walker"]
    ELSE [x |-> spot.x, y |-> spot.y]

\* the number of objects of the level data
EditorCount(data) == Len(data.platforms) + Len(data.coins) + Len(data.enemies)

\* the object idx of the list arr moved to a point
EditorMoved(data, arr, idx, spot) ==
    [data EXCEPT ![arr] = [@ EXCEPT ![idx] = [@ EXCEPT !.x = spot.x, !.y = spot.y]]]

\* an event of the level editor
EditorEvent(ed, op, pushed) ==
    /\ game_state = "level_editor"
    /\ editor' = ed
    /\ ev' = [NoEvents EXCEPT !.editor_op = op, !.pushed = pushed,
                               !.before = <<editor.data, editor.undo_stack>>]
    /\ UNCHANGED <<game_state, wstate, max_health, save_data, settings, player_rect, hist, gameplay_focus>>

\* Ctrl+Z
EditorUndoKey == EditorEvent(EditorUndo(editor), "undo", FALSE)

\* Ctrl+Y
EditorRedoKey ==
    /\ Len(editor.undo_stack) < MaxUndo \/ editor.redo_stack = <<>>
    /\ EditorEvent(EditorRedo(editor), "redo", FALSE)

\* a coin or an enemy dragged from the palette and dropped at a point
EditorPaletteDrop(arr, spot) ==
    /\ EditorCount(editor.data) < MaxEditorItems
    /\ Len(editor.undo_stack) < MaxUndo
    /\ EditorEvent(EditorEdit(editor, [editor.data EXCEPT
                                          ![arr] = Append(@, EditorItem(arr, spot))]),
                   "edit", TRUE)

\* an object of the level picked up (the snapshot is pushed at the click)
\* and dragged to a point
EditorMoveDrag(arr, idx, spot) ==
    /\ idx \in 1..Len(editor.data[arr])
    /\ Len(editor.undo_stack) < MaxUndo
    /\ EditorEvent(EditorEdit(editor, EditorMoved(editor.data, arr, idx, spot)),
                   "edit", TRUE)

\* left click with the coin tool or the enemy tool: the object is placed
\* without a snapshot
EditorClickPlace(arr, spot) ==
    /\ EditorCount(editor.data) < MaxEditorItems
    /\ EditorEvent([editor EXCEPT !.data[arr] = Append(@, EditorItem(arr, spot))],
                   "edit", FALSE)

\* right click: the nearest object is deleted without a snapshot
EditorDelete(arr, idx) ==
    /\ idx \in 1..Len(editor.data[arr])
    /\ EditorEvent([editor EXCEPT !.data[arr] =
                        SubSeqAt(@, (1..Len(@)) \ {idx})],
                   "edit", FALSE)

\* keys [ and ]: both stacks are cleared and another level is loaded
EditorSwitchLevel == EditorEvent(NewEditor, "load", FALSE)

\* SpecEditor: the level editor on a level without file
InitEditor ==
    /\ wstate = reset_state(BASE_MAX_HEALTH)
    /\ game_state = "menu"
    /\ save_data = SaveFile(FALSE, FALSE, 0, 0, {}, 0)
    /\ settings = [enemy_damage_mult |-> 10, game_speed_mult |-> 10]
    /\ max_health = BASE_MAX_HEALTH
    /\ player_rect = [y |-> PLAYER_START_Y]
    /\ ev = NoEvents
    /\ hist = NewRunHist
    /\ gameplay_focus = 0
    /\ editor = NewEditor

NextEditor ==
    \/ MenuTo("level_editor")
    \/ EscToMenu
    \/ EditorUndoKey
    \/ EditorRedoKey
    \/ \E arr \in EditorLists, spot \in EditorSpots : EditorPaletteDrop(arr, spot)
    \/ \E arr \in EditorLists, idx \in 1..MaxEditorItems, spot \in EditorSpots : EditorMoveDrag(arr, idx, spot)
    \/ \E arr \in EditorLists, spot \in EditorSpots : EditorClickPlace(arr, spot)
    \/ \E arr \in EditorLists, idx \in 1..MaxEditorItems : EditorDelete(arr, idx)
    \/ EditorSwitchLevel

SpecEditor == InitEditor /\ [][NextEditor]_vars

(***************************************************************************)
(* Properties.  A step is a frame of a run exactly when ev' records one.   *)
(***************************************************************************)

\* C1: within one run the level counter never decreases from one simulated
\* frame to the next, whatever coins, hits and inputs the frame brings.
C1_LevelNeverDecreases ==
    [][ev'.frame => wstate'.level >= wstate.level]_vars

\* a frame of a run started at a chosen level above the level its coins give,
\* in which coins were picked up
C1_Witness ==
    /\ ev.frame
    /\ ev.picked > 0
    /\ wstate.level > 1 + wstate.coins_collected_run \div LEVEL_UP_EVERY_COINS

\* C2: after the level-up check of every frame of every run, however the run
\* was started, level = 1 + floor(coins_collected_run / LEVEL_UP_EVERY_COINS).
C2_LevelFromCoins ==
    ev.frame =>
        wstate.level = 1 + wstate.coins_collected_run \div LEVEL_UP_EVERY_COINS

\* C3: in every reachable state 0 <= health <= max_health.
C3_HealthInRange ==
    0 <= wstate.health /\ wstate.health <= wstate.max_health

\* C4: a hit that brings health to 0 or below runs the death path (the run
\* folded into the save data, game_state = game_over) in that very frame,
\* with took_damage true, and the death path runs at most once per run.
C4_DeathPathOnce ==
    [][/\ (ev'.frame /\ wstate'.health <= 0) =>
            /\ wstate.health > 0
            /\ wstate'.health < wstate.health
            /\ wstate'.took_damage
            /\ game_state' = "game_over"
            /\ hist'.deaths = 1
            /\ save_data'.total_coins =
                   save_data.total_coins + wstate'.coins_collected_run
       /\ hist'.deaths > hist.deaths => ev'.frame /\ wstate'.health <= 0
       /\ hist'.deaths <= 1
       /\ game_state' = "playing" => wstate'.health > 0]_vars

\* the frame in which a run that had collected coins died
C4_Witness ==
    /\ ev.frame
    /\ ev.n_touch > 0
    /\ game_state = "game_over"
    /\ wstate.health <= 0
    /\ wstate.coins_collected_run > 0
    /\ hist.deaths = 1

\* C5: death is one-way.  Playing is entered from another screen either by
\* resuming a paused, living run unchanged, or with a freshly reset RunState
\* (health = max_health, no coins, timers and flags cleared, no death on
\* record) that holds no enemies but those of the custom level applied right
\* after the reset; Retry on the game over screen applies none.
C5_DeathOneWay ==
    [][(game_state # "playing" /\ game_state' = "playing") =>
          \/ /\ game_state = "paused"
             /\ wstate' = wstate
             /\ wstate.health > 0
          \/ /\ game_state \in {"game_over", "menu", "level_select", "level_editor"}
             /\ wstate'.health = max_health
             /\ wstate'.max_health = max_health
             /\ wstate'.coins_collected_run = 0
             /\ wstate'.invincible_timer = 0
             /\ wstate'.knockback_timer = 0
             /\ wstate'.shake_timer = 0
             /\ wstate'.dash_timer = 0
             /\ wstate'.dash_cooldown = 0
             /\ ~wstate'.took_damage
             /\ ~wstate'.boss_wave_spawned
             /\ hist'.deaths = 0
             /\ wstate'.enemies \in CustomEnemyLists
             /\ game_state = "game_over" =>
                    wstate'.enemies = <<>> /\ wstate'.level = 1]_vars

\* a run that starts without custom level after an earlier run died with coins
C5_Witness ==
    /\ game_state = "playing"
    /\ ~ev.frame
    /\ hist.deaths = 0
    /\ wstate.health = max_health
    /\ wstate.enemies = <<>>
    /\ save_data.total_coins > MaxTotalCoins - 10

\* C6: a frame whose coins put the expected level k >= 1 above the current
\* level raises the level by exactly k, fires exactly k level-up bursts and
\* clears boss_wave_spawned; any other frame leaves the level alone, fires
\* no burst and does not clear boss_wave_spawned.
C6_LevelUpByDifference ==
    [][ev'.frame =>
          LET k == (1 + wstate'.coins_collected_run \div LEVEL_UP_EVERY_COINS)
                   - wstate.level
          IN IF k >= 1
             THEN /\ wstate'.level = wstate.level + k
                  /\ ev'.bursts = k
                  /\ ~wstate'.boss_wave_spawned
             ELSE /\ wstate'.level = wstate.level
                  /\ ev'.bursts = 0
                  /\ wstate'.boss_wave_spawned =
                         (wstate.boss_wave_spawned \/ ev'.boss_wave)]_vars

\* 20 coins picked in one frame at coins 0, level 1: level 2, one burst
C6_Witness ==
    /\ ev.frame
    /\ ev.picked = LEVEL_UP_EVERY_COINS
    /\ wstate.coins_collected_run = LEVEL_UP_EVERY_COINS
    /\ wstate.level = 2
    /\ ev.bursts = 1
    /\ ~wstate.boss_wave_spawned

\* C7: the boss squadron is spawned only in a frame that starts at a boss
\* level with the guard clear, at most once while the level stays the same;
\* the spawn sets boss_wave_spawned and every level-up clears it.
C7_BossWaveOncePerLevel ==
    [][ev'.frame =>
          /\ ev'.boss_wave =>
                /\ wstate.level \in BOSS_LEVELS
                /\ ~wstate.boss_wave_spawned
                /\ hist.waves = 0
          /\ (ev'.boss_wave /\ wstate'.level = wstate.level) =>
                wstate'.boss_wave_spawned
          /\ wstate'.level # wstate.level => ~wstate'.boss_wave_spawned
          /\ hist'.waves <= 1]_vars

\* a later frame of a boss level that was reached by collecting coins and
\* whose squadron has been spawned
C7_Witness ==
    /\ ev.frame
    /\ ~ev.boss_wave
    /\ hist.waves = 1
    /\ wstate.level \in BOSS_LEVELS
    /\ wstate.boss_wave_spawned
    /\ wstate.coins_collected_run >= 4 * LEVEL_UP_EVERY_COINS

\* C8: a frame whose damage step starts with invincible_timer > 0 skips the
\* damage step: health, took_damage and the knockback direction keep their
\* values and the invincibility, knockback and shake timers only run down,
\* whatever intersects the player; and a frame applies a hit only when at
\* least INVINCIBLE_TIME of scaled time has passed since the last hit.
C8_InvincibilitySkipsDamage ==
    [][ev'.frame =>
          /\ wstate.invincible_timer > 0 =>
                /\ wstate'.health = wstate.health
                /\ wstate'.took_damage = wstate.took_damage
                /\ wstate'.knockback_dx = wstate.knockback_dx
                /\ wstate'.invincible_timer = wstate.invincible_timer - ev'.dt
                /\ wstate'.knockback_timer =
                       IF wstate.knockback_timer > 0
                       THEN wstate.knockback_timer - ev'.dt
                       ELSE wstate.knockback_timer
                /\ wstate'.shake_timer =
                       IF wstate.shake_timer > 0
                       THEN wstate.shake_timer - ev'.dt
                       ELSE wstate.shake_timer
          /\ wstate'.invincible_timer = INVINCIBLE_TIME =>
                hist.since_hit >= INVINCIBLE_TIME]_vars

\* a frame with invincibility running in which two or more enemies with
\* damage to deal intersect the living player
C8_Witness ==
    /\ ev.frame
    /\ ev.n_touch >= 2
    /\ ev.touch_dmg > 0
    /\ wstate.invincible_timer > 0
    /\ wstate.invincible_timer < INVINCIBLE_TIME
    /\ wstate.health > 0

\* C9: in a frame whose damage step starts with invincible_timer <= 0 and in
\* which n >= 2 enemies intersect the player, health drops by the sum of the
\* n damages: the invincibility the first hit starts does not stop the rest.
C9_EveryOverlapHits ==
    [][(ev'.frame /\ wstate.invincible_timer <= 0 /\ ev'.n_touch >= 2) =>
          /\ wstate'.health = wstate.health - ev'.touch_dmg
          /\ wstate'.took_damage
          /\ wstate'.invincible_timer = INVINCIBLE_TIME]_vars

\* a jumper and a walker hit a player with full health in the same frame
C9_Witness ==
    /\ ev.frame
    /\ ev.n_touch = 2
    /\ ev.touch_dmg = BASE_MAX_HEALTH
    /\ wstate.health = 0
    /\ wstate.invincible_timer = INVINCIBLE_TIME

\* C10: a dash request with no dash active and dash_cooldown > 0 is rejected
\* (dash_timer and dash_dir unchanged, no dash displacement); a request with
\* dash_timer <= 0 and dash_cooldown <= 0 starts a dash (dash_timer =
\* DASH_DURATION; dash_cooldown set to DASH_COOLDOWN, from which the frame's
\* own dt_scaled is taken at the end of the DASH block); dash_timer rises in
\* no other frame.
C10_DashStartRule ==
    [][ev'.frame =>
          /\ (ev'.dash_down /\ wstate.dash_timer <= 0 /\ wstate.dash_cooldown > 0) =>
                /\ wstate'.dash_timer = wstate.dash_timer
                /\ wstate'.dash_dir = wstate.dash_dir
                /\ ev'.dash_dx = 0
          /\ (ev'.dash_down /\ wstate.dash_timer <= 0 /\ wstate.dash_cooldown <= 0) =>
                /\ wstate'.dash_timer = DASH_DURATION
                /\ wstate'.dash_cooldown = DASH_COOLDOWN - ev'.dt
          /\ wstate'.dash_timer > wstate.dash_timer =>
                /\ ev'.dash_down
                /\ wstate.dash_timer <= 0
                /\ wstate.dash_cooldown <= 0]_vars

\* a frame that rejected a dash request: the dash is over, the cooldown runs
C10_Witness ==
    /\ ev.frame
    /\ ev.dash_down
    /\ ev.dash_dx = 0
    /\ wstate.dash_timer <= 0
    /\ wstate.dash_cooldown > 0
    /\ wstate.dash_cooldown < DASH_COOLDOWN - DASH_DURATION

\* C11 as stated: a fragile platform with hits_to_break = 1 is still in the
\* list when the player stands on it a second time, that is, the platform
\* update keeps a fragile platform that has been stood on once (unless it
\* has scrolled off); it is removed only after the second stand-on.
C11_RemovedAfterSecondStand ==
    [][ev'.frame =>
          \A i \in 1..Len(wstate.platforms) :
              (/\ wstate.platforms[i].type = "fragile"
               /\ wstate.platforms[i].fragile_hits = 1
               /\ i \notin ev'.off)
              => \E j \in 1..Len(ev'.kept) : ev'.kept[j] = i]_vars

\* C11, amended: a fragile platform with hits_to_break = 1 is removed by the
\* platform update of the frame after its first stand-on: the update keeps a
\* fragile platform exactly if it has never been stood on (and has not
\* scrolled off), so every fragile platform the player lands on had no hit
\* before and has one after, and there is no second stand-on.
C11_RemovedAfterFirstStand ==
    [][ev'.frame =>
          /\ \A i \in 1..Len(wstate.platforms) :
                wstate.platforms[i].type = "fragile" =>
                    ((\E j \in 1..Len(ev'.kept) : ev'.kept[j] = i)
                     <=> (wstate.platforms[i].fragile_hits = 0 /\ i \notin ev'.off))
          /\ \A j \in ev'.stood :
                wstate'.platforms[j].type = "fragile" =>
                    /\ wstate.platforms[ev'.kept[j]].fragile_hits = 0
                    /\ wstate'.platforms[j].fragile_hits = 1]_vars

\* the frame after the player stood on a fragile platform: the update has
\* dropped the platform as broken and the player is falling
C11_Witness ==
    /\ ev.frame
    /\ ev.broken # {}
    /\ ev.broken \cap ev.off = {}
    /\ ~wstate.on_ground
    /\ wstate.player_vel_y > 0
    /\ player_rect.y < GROUND_Y

\* C12: a fragile platform whose hit counter reaches hits_to_break stays in
\* the list in the frame of that hit (the player stands on it at the end of
\* the frame), the platform update of the next frame removes it, and no
\* platform in the list ever has fragile_hits above hits_to_break.
C12_FragileGrace ==
    [][ev'.frame =>
          /\ \A j \in ev'.stood :
                /\ j \in 1..Len(wstate'.platforms)
                /\ wstate'.platforms[j].type = wstate.platforms[ev'.kept[j]].type
                /\ wstate'.platforms[j].type = "fragile" =>
                      wstate'.platforms[j].fragile_hits =
                          wstate.platforms[ev'.kept[j]].fragile_hits + 1
          /\ \A i \in 1..Len(wstate.platforms) :
                (/\ wstate.platforms[i].type = "fragile"
                 /\ wstate.platforms[i].fragile_hits >= HITS_TO_BREAK)
                => \A j \in 1..Len(ev'.kept) : ev'.kept[j] # i
          /\ \A j \in 1..Len(wstate'.platforms) :
                wstate'.platforms[j].type = "fragile" =>
                    wstate'.platforms[j].fragile_hits <= HITS_TO_BREAK]_vars

\* the frame of the hit: the player stands on a fragile platform whose
\* counter has reached hits_to_break, with another platform in the list
C12_Witness ==
    /\ ev.frame
    /\ wstate.on_ground
    /\ Len(wstate.platforms) = 2
    /\ \E j \in ev.stood :
          /\ wstate.platforms[j].type = "fragile"
          /\ wstate.platforms[j].fragile_hits = HITS_TO_BREAK
          /\ player_rect.y = wstate.platforms[j].rect.y - PLAYER_H

\* C18: a jump starts only in a frame in which the jump intent has just
\* gone from not held to held: a frame that finds the intent held as the
\* frame before it did starts no jump, neither from the ground nor in the
\* air.
C18_JumpOnPressOnly ==
    [][(ev.frame /\ ev.jump_down /\ ev'.frame /\ ev'.jump_down) =>
          ev'.jump = "none"]_vars

\* C19: a jump starts in the air only if the double jump is owned, the
\* player is not on the ground and jump_count = 1; it sets jump_count to 2,
\* and from one frame that ends on the ground (or a platform) to the next at
\* most one such jump happens.  Without the upgrade no jump starts in the
\* air; jump_count stays within 0 .. 2.
C19_DoubleJumpOnce ==
    [][ev'.frame =>
          /\ ev'.jump = "air" =>
                /\ save_data.double_jump
                /\ ~wstate.on_ground
                /\ wstate.jump_count = 1
                /\ wstate'.jump_count = 2
                /\ wstate'.player_vel_y < 0
                /\ hist.air_jumps = 0
          /\ (~wstate.on_ground /\ ~save_data.double_jump) =>
                /\ ev'.jump = "none"
                /\ wstate'.jump_count = wstate.jump_count
          /\ hist'.air_jumps <= 1
          /\ wstate'.jump_count \in 0..2]_vars

\* a frame with the jump intent held, after the double jump of the same
\* airborne phase: no further jump starts
C19_Witness ==
    /\ ev.frame
    /\ ev.jump_down
    /\ ev.jump = "none"
    /\ hist.air_jumps = 1
    /\ wstate.jump_count = 2
    /\ ~wstate.on_ground
    /\ save_data.double_jump

\* C20: in a frame that starts with dash_timer > 0 the horizontal movement
\* of the player is the dash displacement int(dash_dir * DASH_SPEED *
\* dt_scaled) alone; the left/right intents add nothing.
C20_DashAloneMoves ==
    [][(ev'.frame /\ wstate.dash_timer > 0) =>
          /\ ev'.move_dx = 0
          /\ ev'.dash_dx + ev'.move_dx =
                 TruncDiv(wstate.dash_dir * DASH_SPEED * ev'.dt, 100)]_vars

\* C17: in every reachable state the global high-score list holds at most
\* 10 records and every per-level list at most 5, each sorted by score in
\* descending order, and best_score is the highest score on record (the head
\* of the global list).  The frame in which a run ends changes the per-level
\* list of the level the run ended on and no other: the run is entered
\* there and in the global list unless the list is full of runs it does not
\* beat, and best_score becomes the larger of its old value and the score.
C17_ScoreTables ==
    [][LET SortedDesc(t) == \A i \in 1..(Len(t) - 1) : t[i].score >= t[i + 1].score
           Holds(t, r) == \E i \in 1..Len(t) : t[i] = r
           Old(l) == IF l \in DOMAIN save_data.scores_by_level
                     THEN save_data.scores_by_level[l] ELSE <<>>
           run == [score |-> ev'.run_score, coins |-> wstate'.coins_collected_run,
                   level |-> wstate'.level]
           Entered(t, t1, n) ==
               /\ Len(t1) = (IF Len(t) < n THEN Len(t) + 1 ELSE n)
               /\ \A i \in 1..Len(t1) : t1[i] = run \/ Holds(t, t1[i])
               /\ \/ Holds(t1, run)
                  \/ Len(t) = n /\ \A i \in 1..n : t[i].score >= run.score
       IN /\ Len(save_data'.high_scores) <= 10
          /\ SortedDesc(save_data'.high_scores)
          /\ \A l \in DOMAIN save_data'.scores_by_level :
                /\ Len(save_data'.scores_by_level[l]) <= 5
                /\ SortedDesc(save_data'.scores_by_level[l])
          /\ save_data'.high_scores # <<>> =>
                save_data'.best_score = save_data'.high_scores[1].score
          /\ IF hist'.deaths > hist.deaths
             THEN /\ DOMAIN save_data'.scores_by_level =
                         DOMAIN save_data.scores_by_level \cup {wstate'.level}
                  /\ \A l \in DOMAIN save_data.scores_by_level \ {wstate'.level} :
                         save_data'.scores_by_level[l] = save_data.scores_by_level[l]
                  /\ Entered(Old(wstate'.level),
                             save_data'.scores_by_level[wstate'.level], 5)
                  /\ Entered(save_data.high_scores, save_data'.high_scores, 10)
                  /\ save_data'.best_score =
                         (IF ev'.run_score > save_data.best_score
                          THEN ev'.run_score ELSE save_data.best_score)
             ELSE /\ save_data'.high_scores = save_data.high_scores
                  /\ save_data'.scores_by_level = save_data.scores_by_level
                  /\ save_data'.best_score = save_data.best_score]_vars

\* the end of a run at level 2 that beat every run on record, with the
\* global list full and the list of level 2 full, next to the list of level 1
C17_Witness ==
    /\ ev.frame
    /\ game_state = "game_over"
    /\ wstate.level = 2
    /\ Len(save_data.high_scores) = HIGH_SCORES_KEPT
    /\ Len(save_data.scores_by_level[2]) = LEVEL_SCORES_KEPT
    /\ Len(save_data.scores_by_level[1]) = 3
    /\ ev.run_score = save_data.best_score
    /\ save_data.high_scores[1].level = 2
    /\ save_data.high_scores[HIGH_SCORES_KEPT].score < ev.run_score

\* C14: a run started from a level file holds exactly the platforms, coins
\* and enemies of the file, in the file's order: every platform with the
\* top-left corner, size and type of its entry (type "normal" when the entry
\* names none), every coin and enemy centred on the point of its entry, the
\* enemy with the kind of its entry ("walker" when the entry names none),
\* and all of them fresh: no fragile hit, not falling, no velocity.
C14_CustomRoundTrip ==
    ev.start =>
        LET d == editor_load_level(ev.custom)
        IN /\ Len(wstate.platforms) = Len(d.platforms)
           /\ Len(wstate.coins) = Len(d.coins)
           /\ Len(wstate.enemies) = Len(d.enemies)
           /\ \A i \in 1..Len(d.platforms) :
                 /\ wstate.platforms[i].rect.x = d.platforms[i].x
                 /\ wstate.platforms[i].rect.y = d.platforms[i].y
                 /\ wstate.platforms[i].rect.w = d.platforms[i].w
                 /\ wstate.platforms[i].rect.h = d.platforms[i].h
                 /\ wstate.platforms[i].type =
                       (IF "type" \in DOMAIN d.platforms[i]
                        THEN d.platforms[i].type ELSE "normal")
                 /\ wstate.platforms[i].fragile_hits = 0
                 /\ ~wstate.platforms[i].fall_started
                 /\ wstate.platforms[i].fall_timer = 0
                 /\ wstate.platforms[i].vx = 0
                 /\ wstate.platforms[i].vy = 0
           /\ \A i \in 1..Len(d.coins) :
                 /\ centerx(wstate.coins[i]) = d.coins[i].x
                 /\ centery(wstate.coins[i]) = d.coins[i].y
           /\ \A i \in 1..Len(d.enemies) :
                 /\ centerx(wstate.enemies[i].rect) = d.enemies[i].x
                 /\ centery(wstate.enemies[i].rect) = d.enemies[i].y
                 /\ wstate.enemies[i].kind =
                       (IF "kind" \in DOMAIN d.enemies[i]
                        THEN d.enemies[i].kind ELSE "walker")
                 /\ wstate.enemies[i].vx = 0
                 /\ wstate.enemies[i].vy = 0

\* a run started from a file with three platforms, two coins and one enemy
C14_Witness ==
    /\ ev.start
    /\ "platforms" \in DOMAIN ev.custom
    /\ Len(ev.custom.platforms) = 3
    /\ Len(ev.custom.coins) = 2
    /\ Len(ev.custom.enemies) = 1
    /\ Len(wstate.platforms) = 3
    /\ wstate.platforms[2].type # wstate.platforms[3].type
    /\ wstate.coins[1] # wstate.coins[2]

\* C15: a run started from a level file differs from the freshly reset
\* RunState of its level in the platforms, coins and enemies only; a file
\* that is missing, unreadable or without lists leaves the three empty.
C15_OnlyThreeCollections ==
    ev.start =>
        /\ DOMAIN wstate = DOMAIN reset_state(max_health)
        /\ \A k \in DOMAIN wstate \ {"platforms", "coins", "enemies"} :
              wstate[k] = [reset_state(max_health) EXCEPT !.level = ev.start_level][k]
        /\ ev.custom \in {NoFile, BadFile, EmptyObject} =>
              /\ wstate.platforms = <<>>
              /\ wstate.coins = <<>>
              /\ wstate.enemies = <<>>

\* a run at level 2 with the extra heart, started from a file with entities
C15_Witness ==
    /\ ev.start
    /\ ev.start_level = 2
    /\ wstate.level = 2
    /\ wstate.health = BASE_MAX_HEALTH + 1
    /\ wstate.enemies # <<>>
    /\ wstate.platforms # <<>>

\* C13: an enemy update over no elapsed time that directly follows an enemy
\* update removes no enemy and leaves the list as it found it; and after
\* every update the survivors are in their old order and none of them is
\* flagged remove.
C13_CullIdempotent ==
    [][ev'.pass =>
          /\ (ev.pass /\ ev'.dt = 0) => wstate'.enemies = wstate.enemies
          /\ Len(wstate'.enemies) = Len(ev'.alive)
          /\ \A j \in 1..Len(ev'.alive) :
                /\ ev'.alive[j] \in 1..Len(wstate.enemies)
                /\ j > 1 => ev'.alive[j - 1] < ev'.alive[j]
                /\ wstate'.enemies[j].kind = wstate.enemies[ev'.alive[j]].kind
                /\ ~wstate'.enemies[j].remove]_vars

\* an update over no time that leaves a single jumper, already moved past
\* the left screen edge, in the list
C13_Witness ==
    /\ ev.pass
    /\ ev.dt = 0
    /\ Len(wstate.enemies) = 1
    /\ wstate.enemies[1].kind = "jumper"
    /\ wstate.enemies[1].t > 0
    /\ wstate.enemies[1].rect.x < 0

\* C16 as stated: a jumper whose cooldown starts at jump_interval does not
\* leap before 2.0 s, and after the update of its leap its vertical velocity
\* is jump_force and its cooldown is jump_interval.
C16_JumpVelocityIsForce ==
    [][ev'.pass =>
          \A j \in 1..Len(wstate'.enemies) :
              ev'.alive[j] \in ev'.leaping =>
                  /\ wstate'.enemies[j].t >= ENEMY_BEHAVIOR_CONFIG.jumper.jump_interval
                  /\ wstate'.enemies[j].jump_cooldown =
                        ENEMY_BEHAVIOR_CONFIG.jumper.jump_interval
                  /\ wstate'.enemies[j].vy =
                        ENEMY_BEHAVIOR_CONFIG.jumper.jump_force * 100]_vars

\* C16: a jumper whose cooldown starts at jump_interval does not leap
\* before 2.0 s; after the update of its leap its cooldown is jump_interval
\* and its vertical velocity is jump_force plus that update's gravity,
\* 0.9 * GRAVITY * dt, or 0 when the update leaves it on the ground line.
C16_JumpVelocityAfterGravity ==
    [][ev'.pass =>
          \A j \in 1..Len(wstate'.enemies) :
              ev'.alive[j] \in ev'.leaping =>
                  /\ wstate'.enemies[j].t >= ENEMY_BEHAVIOR_CONFIG.jumper.jump_interval
                  /\ wstate'.enemies[j].jump_cooldown =
                        ENEMY_BEHAVIOR_CONFIG.jumper.jump_interval
                  /\ wstate'.enemies[j].vy =
                        (IF bottom(wstate'.enemies[j].rect) = REFERENCE_HEIGHT
                         THEN 0
                         ELSE ENEMY_BEHAVIOR_CONFIG.jumper.jump_force * 100
                              + ((GRAVITY * 9) \div 10) * ev'.dt)]_vars

\* a jumper right after the update of its first leap, off the ground
C16_Witness ==
    /\ ev.pass
    /\ ev.leaping # {}
    /\ ev.dt = 6
    /\ \E j \in 1..Len(wstate.enemies) :
          /\ ev.alive[j] \in ev.leaping
          /\ wstate.enemies[j].t \in 200..205
          /\ wstate.enemies[j].vy < 0
          /\ bottom(wstate.enemies[j].rect) < REFERENCE_HEIGHT

\* C27: at the end of every frame in which the player is grounded and has
\* not jumped, jump_count is 0.
C27_GroundedResetsJumpCount ==
    (ev.frame /\ wstate.on_ground /\ ev.jump = "none") => wstate.jump_count = 0

\* C28: dash_dir is -1 or +1 after every frame.  A frame that starts a dash
\* sets it to -1 when the left intent alone is held and to +1 otherwise
\* (right alone, none, or both); a frame that starts no dash leaves it; a
\* step that is no frame leaves it or, starting a run, resets it to +1.
C28_DashDirNeverZero ==
    [][/\ ev'.frame =>
            /\ wstate'.dash_dir \in {-1, 1}
            /\ DashStarts(wstate, ev'.dash_down) =>
                  wstate'.dash_dir = (IF ev'.move_dx < 0 THEN -1 ELSE 1)
            /\ ~DashStarts(wstate, ev'.dash_down) =>
                  wstate'.dash_dir = wstate.dash_dir
       /\ ~ev'.frame => wstate'.dash_dir \in {wstate.dash_dir, 1}]_vars

\* a frame that has started a dash with the left intent alone held
C28_Witness ==
    /\ ev.frame
    /\ ev.dash_down
    /\ ev.move_dx < 0
    /\ wstate.dash_timer = DASH_DURATION
    /\ wstate.dash_dir = -1

\* C29: a frame emits a landing dust burst only if the player was airborne
\* when the frame began.
C29_LandingDustOneShot ==
    [][(ev'.frame /\ ev'.land_dust > 0) => ~wstate.on_ground]_vars

\* C21: the knockback displacement of a frame moves the player away from
\* the enemy of the latest hit: to the right if the player's centre was
\* right of the enemy's centre at the hit, to the left if it was left of it.
C21_KnockbackAway ==
    [][(ev'.frame /\ ev'.knock_move # 0) =>
          /\ hist'.hit_side = "right" => ev'.knock_move > 0
          /\ hist'.hit_side = "left" => ev'.knock_move < 0]_vars

\* C22: at the end of every frame the player's x lies between the left
\* margin and screen_w - player width.
C22_XWithinPlayfield ==
    ev.frame => (ev.x >= LEFT_MARGIN /\ ev.x <= REFERENCE_WIDTH - PLAYER_W)

\* C23: the per-frame ground/air spawner spawns no enemy of a kind that the
\* level-enablement config disables at the level of the frame.
C23_SpawnsEnabledKindsOnly ==
    [][ev'.frame => ev'.spawned \subseteq get_enabled_enemy_kinds(wstate.level)]_vars

\* C25: an enemy of a kind that is no key of the enemy config never makes a
\* frame fail: the behaviour update moves it by the default linear motion
\* and no frame ends the program.
C25_UnknownKindNeverFails ==
    /\ game_state # "crashed"
    /\ \A k \in UnknownKinds : BehaviorType(k) = "plain"

\* C26: no_hit_to_5 is awarded only by a frame that ends with the level at
\* least 5 and took_damage still false; took_damage stays true for the rest
\* of the run, so a run that was hit is never awarded it, neither at a
\* level-up nor at death.
C26_NoHitAwardNeedsNoHit ==
    [][/\ ("no_hit_to_5" \in save_data'.achievements \ save_data.achievements) =>
             /\ ev'.frame
             /\ wstate'.level >= 5
             /\ ~wstate'.took_damage
             /\ ~wstate.took_damage
       /\ (ev'.frame /\ wstate.took_damage) => wstate'.took_damage]_vars

\* C26 witness: a run that was never hit has reached level 5 and holds the
\* achievement, which the save file did not have
C26_Witness ==
    /\ ev.frame
    /\ ev.bursts > 0
    /\ wstate.level >= 5
    /\ ~wstate.took_damage
    /\ save_data.achievements = {"reach_level_5", "no_hit_to_5"}

\* C30: a jumper created by the spawn scheduler starts with the cooldown
\* drawn from [0, jump_interval]: in its first update it leaps only if the
\* draw has run out, so two jumpers of one spawn frame need not leap together.
C30_SpawnedJumperCooldownDrawn ==
    [][ev'.pass =>
         \A i \in ev'.leaping :
            (wstate.enemies[i].state = "run" /\ wstate.enemies[i].t = 0) =>
                JumpDue(ev'.cd_draw, ev'.dt)]_vars

\* the delay of each timer-driven class and its time stamp in a run state
SpawnClasses == {"tree", "coin", "platform"}
SpawnDelayBase(c) ==
    IF c = "tree" THEN OBSTACLE_SPAWN_DELAY_BASE
    ELSE IF c = "coin" THEN COIN_SPAWN_DELAY_BASE ELSE PLATFORM_SPAWN_DELAY_BASE
LastSpawn(w, c) ==
    IF c = "tree" THEN w.last_tree_spawn
    ELSE IF c = "coin" THEN w.last_coin_spawn ELSE w.last_platform_spawn
SpawnedList(w, c) ==
    IF c = "tree" THEN w.trees ELSE IF c = "coin" THEN w.coins ELSE w.platforms

StaleFlags(enemies) == [i \in 1..Len(enemies) |-> Put(enemies[i], "remove", TRUE)]

\* C31: update_enemies returns exactly the enemies that their behaviour
\* update of this frame did not flag remove, in their old order, none added
\* and none twice; no returned enemy has remove set, and a flag left from an
\* earlier frame removes nothing.
C31_CullKeepsUnflaggedInOrder ==
    [][ev'.pass =>
         LET B == Behaved(wstate.enemies, ev'.dt, GAME_SPEED_BASE, ev'.cd_draw)
         IN /\ Len(wstate'.enemies) = Cardinality({i \in 1..Len(B) : ~B[i].remove})
            /\ Len(wstate'.enemies) = Len(ev'.alive)
            /\ \A j \in 1..Len(ev'.alive) :
                  /\ ev'.alive[j] \in 1..Len(B)
                  /\ ~B[ev'.alive[j]].remove
                  /\ j > 1 => ev'.alive[j - 1] < ev'.alive[j]
                  /\ wstate'.enemies[j] = B[ev'.alive[j]]
                  /\ ~wstate'.enemies[j].remove
            /\ update_enemies_pass(StaleFlags(wstate.enemies), ev'.dt, GAME_SPEED_BASE,
                                   ev'.cd_draw) = wstate'.enemies]_vars

\* C31 witness: an update has dropped the first of two enemies and kept the
\* second
C31_Witness ==
    /\ ev.pass
    /\ ev.alive = <<2>>
    /\ Len(wstate.enemies) = 1
    /\ ~wstate.enemies[1].remove

\* C32: a fall platform does not move vertically before the player has
\* landed on it; a landing sets fall_started, which stays set; from then on
\* fall_timer grows by the scaled time of every platform update; the
\* platform moves only once fall_timer has exceeded fall_delay, and from
\* then on every update speeds it up and moves it down, until the platforms
\* update drops it: below the screen, unless it has scrolled off before.
C32_FallPlatformDelayedFall ==
    [][ev'.frame =>
         /\ \A j \in 1..Len(ev'.kept) :
               LET p == wstate.platforms[ev'.kept[j]]
                   q == wstate'.platforms[j]
               IN p.type = "fall" =>
                    /\ q.type = "fall"
                    /\ p.fall_started => q.fall_started
                    /\ (q.fall_started /\ ~p.fall_started) => j \in ev'.stood
                    /\ ~p.fall_started =>
                          /\ q.rect.y = p.rect.y
                          /\ q.vy = 0
                          /\ q.fall_timer = 0
                    /\ p.fall_started => q.fall_timer = p.fall_timer + ev'.dt
                    /\ (q.rect.y # p.rect.y \/ q.vy # p.vy) => q.fall_timer > FALL_DELAY
                    /\ p.fall_timer > FALL_DELAY =>
                          /\ q.vy > p.vy
                          /\ q.rect.y = p.rect.y + TruncDiv(q.vy * ev'.dt, 1000)
                          /\ q.rect.y > p.rect.y
                    /\ q.rect.y <= REFERENCE_HEIGHT + 200
         /\ \A i \in 1..Len(wstate.platforms) :
               (/\ wstate.platforms[i].type = "fall"
                /\ i \notin ev'.off
                /\ \A j \in 1..Len(ev'.kept) : ev'.kept[j] # i) =>
                   /\ wstate.platforms[i].fall_timer + ev'.dt > FALL_DELAY
                   /\ wstate.platforms[i].rect.y < REFERENCE_HEIGHT + 200
                         => wstate.platforms[i].fall_timer > FALL_DELAY]_vars

\* C32 witness: a fall platform that the player has landed on has waited
\* out its delay and has fallen below the ground line
C32_Witness ==
    /\ ev.frame
    /\ \E j \in 1..Len(wstate.platforms) :
          /\ wstate.platforms[j].type = "fall"
          /\ wstate.platforms[j].fall_started
          /\ wstate.platforms[j].fall_timer > FALL_DELAY
          /\ wstate.platforms[j].rect.y > GROUND_Y + PLAYER_H

\* the particles of both lists of a run state
AllParticles(w) == w.dust_particles \o w.spark_particles

\* C33: after update_particles no returned particle has life >= max_life;
\* an update with dt > 0 raises the life of every particle it keeps; so
\* every particle is removed in the end and the lists, once nothing is
\* spawned any more, only shrink.
C33_ParticlesExpire ==
    /\ [][ev'.particles =>
            /\ \A i \in 1..Len(AllParticles(wstate')) :
                  /\ AllParticles(wstate')[i].life < AllParticles(wstate')[i].max_life
                  /\ \E k \in 1..Len(AllParticles(wstate)) :
                        /\ AllParticles(wstate')[i].life =
                               AllParticles(wstate)[k].life + ev'.dt
                        /\ AllParticles(wstate')[i].max_life =
                               AllParticles(wstate)[k].max_life
            /\ Len(wstate'.dust_particles) <= Len(wstate.dust_particles)
            /\ Len(wstate'.spark_particles) <= Len(wstate.spark_particles)
            /\ Len(AllParticles(wstate')) =
                  Cardinality({k \in 1..Len(AllParticles(wstate)) :
                                  AllParticles(wstate)[k].life + ev'.dt
                                      < AllParticles(wstate)[k].max_life})]_vars
    /\ <>[](AllParticles(wstate) = <<>>)

\* C33 witness: an update with dt > 0 that removed the last particles and
\* left both lists empty
C33_Witness ==
    /\ ev.particles
    /\ ev.dt > 0
    /\ ev.expired > 0
    /\ AllParticles(wstate) = <<>>

\* C34: in every playing frame score_time advances by dt_scaled, that is
\* by dt * game_speed_mult, the delta that drives the physics.
C34_ScoreTimeScaled ==
    [][ev'.ticked => wstate'.score_time = wstate.score_time + ev'.dt_scaled]_vars

\* C35: at the first frame of every new run (Play, level select, editor
\* playtest, retry) every component of the RunState has its initial value:
\* the player rectangle is where main builds it, vertical velocity 0, not
\* on the ground, health = max_health, all timers 0, jump_count 0, coins 0,
\* took_damage and boss_wave_spawned false, and the collections hold
\* nothing but the entities of the custom level.
C35_NewRunStartsFresh ==
    [][ev'.start =>
          /\ player_rect'.y = PLAYER_START_Y
          /\ wstate'.player_vel_y = 0
          /\ ~wstate'.on_ground
          /\ wstate'.health = max_health'
          /\ wstate'.max_health = max_health'
          /\ wstate'.invincible_timer = 0
          /\ wstate'.knockback_timer = 0
          /\ wstate'.dash_timer = 0
          /\ wstate'.dash_cooldown = 0
          /\ wstate'.shake_timer = 0
          /\ wstate'.score_time = 0
          /\ wstate'.jump_count = 0
          /\ wstate'.coins_collected_run = 0
          /\ ~wstate'.took_damage
          /\ ~wstate'.boss_wave_spawned
          /\ wstate'.trees = <<>>
          /\ wstate'.dust_particles = <<>>
          /\ wstate'.spark_particles = <<>>
          /\ wstate' = apply_custom_level_to_state(
                            [reset_state(max_health') EXCEPT !.level = ev'.start_level],
                            editor_load_level(ev'.custom))]_vars

\* the coins of the run state w that intersect the player standing at x
CoinsAtPlayer(w, x) ==
    {i \in 1..Len(w.coins) : colliderect(w.coins[i], PlayerRectAt(x))}

\* C36: in the frame in which a coin intersects the player
\* coins_collected_run grows by exactly 1 for that coin and the coin leaves
\* the list in the same frame, so that no coin is collected twice; a coin
\* that scrolls off the left edge leaves the list without changing the
\* counter; coins_collected_run never decreases during a run.
C36_CoinCollectedOnce ==
    [][ev'.coin_pass =>
          LET dx == ScrollDx(CoinScrollSpeed(settings), ev'.dt)
              at == {i \in 1..Len(wstate.coins) :
                        /\ wstate.coins[i].x - dx + COIN_SIZE >= -50
                        /\ colliderect([wstate.coins[i] EXCEPT !.x = @ - dx],
                                       PlayerRectAt(ev'.x))}
              left == {i \in 1..Len(wstate.coins) :
                        wstate.coins[i].x - dx + COIN_SIZE < -50}
          IN /\ wstate'.coins_collected_run
                    = wstate.coins_collected_run + Cardinality(at)
             /\ Len(wstate'.coins)
                    = Len(wstate.coins) - Cardinality(at) - Cardinality(left)
             /\ CoinsAtPlayer(wstate', ev'.x) = {}
             /\ \A k \in 1..Len(wstate'.coins) : wstate'.coins[k].x + COIN_SIZE >= -50
             /\ wstate'.coins_collected_run >= wstate.coins_collected_run]_vars

\* C36 witness: a frame that collected one coin of two and left the other,
\* which has not reached the player yet, in the list
C36_Witness ==
    /\ ev.coin_pass
    /\ ev.picked = 1
    /\ wstate.coins_collected_run = 1
    /\ Len(wstate.coins) = 1
    /\ wstate.coins[1].x > PLAYER_START_X

\* C37: while the game is paused RunState is frozen: no step taken in the
\* paused state, a frame that passes, an input, Resume or Main Menu, changes
\* a field of RunState or the player rectangle, so that Resume continues
\* the run from exactly the state in which it was paused.
C37_PausedRunStateFrozen ==
    [][game_state = "paused" => wstate' = wstate /\ player_rect' = player_rect]_vars

\* C37 witness: a frame has passed in the paused state of a run that was
\* paused in mid-air with the shake and invincibility timers of a hit running
C37_Witness ==
    /\ game_state = "paused"
    /\ ev.idle
    /\ wstate.shake_timer > 0
    /\ wstate.invincible_timer > 0
    /\ player_rect.y < GROUND_Y

\* C38: after any sequence of slider adjustments (delta -1 or +1) and
\* difficulty-preset selections every gameplay multiplier is within the
\* [min, max] of its slider configuration.
C38_MultipliersInRange ==
    \A i \in 1..Len(GAMEPLAY_SLIDER_ORDER) :
        /\ settings[GAMEPLAY_SLIDER_ORDER[i]]
               >= GAMEPLAY_SLIDER_CONFIG[GAMEPLAY_SLIDER_ORDER[i]].min
        /\ settings[GAMEPLAY_SLIDER_ORDER[i]]
               <= GAMEPLAY_SLIDER_CONFIG[GAMEPLAY_SLIDER_ORDER[i]].max

\* C38 witness: after the Hard preset was selected, move speed, at its
\* maximum of 2.0, was adjusted by +1 and the clamp held it there
C38_Witness ==
    /\ ev.adjust_key = "move_speed_mult"
    /\ ev.adjust_raw > GAMEPLAY_SLIDER_CONFIG["move_speed_mult"].max
    /\ settings.move_speed_mult = GAMEPLAY_SLIDER_CONFIG["move_speed_mult"].max
    /\ settings.difficulty = "Hard"
    /\ settings.enemy_damage_mult = DIFFICULTY_PRESETS["Hard"].enemy_damage_mult

\* C39: in the gameplay settings screen, whatever keyboard, mouse and
\* controller events have set the focus, the index used to look up
\* GAMEPLAY_SLIDER_ORDER is within its bounds.
C39_LookupInBounds ==
    \A idx \in ev.lookup : idx >= 0 /\ idx < Len(GAMEPLAY_SLIDER_ORDER)

====
